---- MODULE Spec2Model ----
(***************************************************************************)
(* A model of the core of DLA-Future: the block-cyclic index arithmetic    *)
(* (matrix/util_distribution.h), the resource Pipeline that serialises     *)
(* accesses to a tile or a communicator, the Matrix and its tile accesses  *)
(* (matrix/matrix.h), the asynchronous MPI bridge                          *)
(* (sender/transform_mpi.h) and the collective kernels built on it         *)
(* (communication/kernels/broadcast.cpp, all_reduce.h).                    *)
(***************************************************************************)
EXTENDS Integers, Sequences, FiniteSets, TLC

(***************************************************************************)
(* Bounds of the model.                                                    *)
(***************************************************************************)
MaxGlobalTile == 12
MaxTilesPerBlock == 2
MaxGridSize == 3
MaxReq == 3
MaxCalls == 3
MaxRanks == 2
MaxElement == 9
MaxBlockSize == 3
MaxMatrixTiles == 2
MaxChunks == 4
MaxAccess == 2

VARIABLES
  dargs,     \* arguments of the index conversion under test
  dres,      \* results of the index conversions called so far (name -> value)
  scn,       \* the scenario: group size, collective, root, staging, initial tiles
  kind,      \* operation -> its kind
  pc,        \* operation -> its position
  other,     \* operation -> whether a bridged call was also given a second guard
  index,     \* operation -> the global tile index a Matrix access was called with
  tilePipe,  \* rank -> the Pipeline of the rank's tile
  commPipe,  \* rank -> the Pipeline of the rank's Communicator
  tile,      \* rank -> content of the rank's tile
  buf,       \* operation -> content of its staging buffer
  req,       \* operation -> state of its MPI_Request
  net,       \* rank -> the values its MPI calls contributed (slot -> value)
  issueLog   \* rank -> the operations whose MPI call was invoked, in order

dvars == <<dargs, dres>>
pvars == <<scn, kind, pc, other, index, tilePipe, commPipe, tile, buf, req, net, issueLog>>
vars == <<dargs, dres, scn, kind, pc, other, index, tilePipe, commPipe, tile, buf, req, net, issueLog>>

(***************************************************************************)
(* matrix/util_distribution.h: pure index conversions.  C++ integer        *)
(* division and remainder on the non-negative arguments the preconditions  *)
(* admit are \div and %.                                                   *)
(***************************************************************************)
\* A slip: the rank that stores the first block is taken to be 0.
rankGlobalTile_NoSrcRank(global_tile, tiles_per_block, grid_size, src_rank) ==
  LET global_block == global_tile \div tiles_per_block
  IN  global_block % grid_size

\* A slip: consecutive tiles, not consecutive blocks, go round the ranks.
localTileFromGlobalTile_TileCyclic(global_tile, tiles_per_block, grid_size, rank, src_rank) ==
  IF rank = (global_tile + src_rank) % grid_size
  THEN LET local_block == (global_tile \div tiles_per_block) \div grid_size
       IN  local_block * tiles_per_block + (global_tile % tiles_per_block)
  ELSE -1

rankGlobalTile(global_tile, tiles_per_block, grid_size, src_rank) ==
  LET global_block == global_tile \div tiles_per_block
  IN  (global_block + src_rank) % grid_size

localTileFromGlobalTile(global_tile, tiles_per_block, grid_size, rank, src_rank) ==
  IF rank = rankGlobalTile(global_tile, tiles_per_block, grid_size, src_rank)
  THEN LET local_block == (global_tile \div tiles_per_block) \div grid_size
       IN  local_block * tiles_per_block + (global_tile % tiles_per_block)
  ELSE -1

\* A slip in the renumbering: the rank is compared as is, not relative to
\* src_rank.
nextLocalTileFromGlobalTile_NoRenumber(global_tile, tiles_per_block, grid_size, rank, src_rank) ==
  LET rank_to_src  == rank
      global_block == global_tile \div tiles_per_block
      owner_to_src == global_block % grid_size
      local_block  == global_block \div grid_size
  IN  IF rank_to_src = owner_to_src
      THEN local_block * tiles_per_block + (global_tile % tiles_per_block)
      ELSE IF rank_to_src < owner_to_src
           THEN (local_block + 1) * tiles_per_block
           ELSE local_block * tiles_per_block

\* A slip in the rounding rule: the block is advanced also when rank_to_src
\* lies after the owner in the current cycle.
nextLocalTileFromGlobalTile_AlwaysNext(global_tile, tiles_per_block, grid_size, rank, src_rank) ==
  LET rank_to_src  == (rank + grid_size - src_rank) % grid_size
      global_block == global_tile \div tiles_per_block
      owner_to_src == global_block % grid_size
      local_block  == global_block \div grid_size
  IN  IF rank_to_src = owner_to_src
      THEN local_block * tiles_per_block + (global_tile % tiles_per_block)
      ELSE (local_block + 1) * tiles_per_block

nextLocalTileFromGlobalTile(global_tile, tiles_per_block, grid_size, rank, src_rank) ==
  LET rank_to_src  == (rank + grid_size - src_rank) % grid_size
      global_block == global_tile \div tiles_per_block
      owner_to_src == global_block % grid_size
      local_block  == global_block \div grid_size
  IN  IF rank_to_src = owner_to_src
      THEN local_block * tiles_per_block + (global_tile % tiles_per_block)
      ELSE IF rank_to_src < owner_to_src
           THEN (local_block + 1) * tiles_per_block
           ELSE local_block * tiles_per_block

\* A slip in the renumbering: the rank is used as is, not relative to src_rank.
globalTileFromLocalTile_NoRenumber(local_tile, tiles_per_block, grid_size, rank, src_rank) ==
  LET local_block == local_tile \div tiles_per_block
  IN  (grid_size * local_block + rank) * tiles_per_block + (local_tile % tiles_per_block)

\* A slip: the position of the tile in its block is dropped.
globalTileFromLocalTile_BlockStart(local_tile, tiles_per_block, grid_size, rank, src_rank) ==
  LET rank_to_src == (rank + grid_size - src_rank) % grid_size
      local_block == local_tile \div tiles_per_block
  IN  (grid_size * local_block + rank_to_src) * tiles_per_block

globalTileFromLocalTile(local_tile, tiles_per_block, grid_size, rank, src_rank) ==
  LET rank_to_src == (rank + grid_size - src_rank) % grid_size
      local_block == local_tile \div tiles_per_block
  IN  (grid_size * local_block + rank_to_src) * tiles_per_block + (local_tile % tiles_per_block)

(***************************************************************************)
(* The index conversions as called by test/unit/matrix/                    *)
(* test_util_distribution.cpp: each call stores its result.                *)
(***************************************************************************)
DistArgs ==
  { [global_tile |-> g, tiles_per_block |-> t, grid_size |-> n, rank |-> r, src_rank |-> s] :
      g \in 0..MaxGlobalTile, t \in 1..MaxTilesPerBlock,
      n \in 1..MaxGridSize, r \in 0..(MaxGridSize - 1), s \in 0..(MaxGridSize - 1) }

ValidDistArgs == { a \in DistArgs : a.rank < a.grid_size /\ a.src_rank < a.grid_size }

NoResult == [n \in {} |-> 0]

DefaultDistArgs ==
  [global_tile |-> 0, tiles_per_block |-> 1, grid_size |-> 1, rank |-> 0, src_rank |-> 0]

Called(n) == n \in DOMAIN dres

Store(n, v) == dres' = (n :> v) @@ dres

Call_rankGlobalTile ==
  /\ ~Called("rank_tile")
  /\ Store("rank_tile", rankGlobalTile(dargs.global_tile, dargs.tiles_per_block,
                                       dargs.grid_size, dargs.src_rank))
  /\ UNCHANGED <<dargs, pvars>>

Call_localTileFromGlobalTile ==
  /\ ~Called("local_tile")
  /\ Store("local_tile", localTileFromGlobalTile(dargs.global_tile, dargs.tiles_per_block,
                                                 dargs.grid_size, dargs.rank, dargs.src_rank))
  /\ UNCHANGED <<dargs, pvars>>

Call_nextLocalTileFromGlobalTile ==
  /\ ~Called("local_tile_next")
  /\ Store("local_tile_next",
           nextLocalTileFromGlobalTile(dargs.global_tile, dargs.tiles_per_block,
                                       dargs.grid_size, dargs.rank, dargs.src_rank))
  /\ UNCHANGED <<dargs, pvars>>

\* The test converts back only a tile the rank stores (local_tile >= 0).
Call_globalTileFromLocalTile ==
  /\ Called("local_tile") /\ dres["local_tile"] >= 0
  /\ ~Called("global_tile")
  /\ Store("global_tile", globalTileFromLocalTile(dres["local_tile"], dargs.tiles_per_block,
                                                  dargs.grid_size, dargs.rank, dargs.src_rank))
  /\ UNCHANGED <<dargs, pvars>>

\* The next local tile of the rank, mapped back to its global index.
Call_globalTileFromNextLocalTile ==
  /\ Called("local_tile_next")
  /\ ~Called("global_tile_next")
  /\ Store("global_tile_next",
           globalTileFromLocalTile(dres["local_tile_next"], dargs.tiles_per_block,
                                   dargs.grid_size, dargs.rank, dargs.src_rank))
  /\ UNCHANGED <<dargs, pvars>>

IdleOps == [o \in {} |-> 0]

InitIdle ==
  /\ scn = [nranks |-> 0, coll |-> "none", root |-> 0, staging |-> FALSE, tile0 |-> <<>>]
  /\ kind = IdleOps /\ pc = IdleOps /\ other = IdleOps /\ index = IdleOps
  /\ tilePipe = <<>> /\ commPipe = <<>> /\ tile = <<>>
  /\ buf = IdleOps /\ req = IdleOps /\ net = IdleOps /\ issueLog = <<>>

InitDist ==
  /\ dargs \in ValidDistArgs
  /\ dres = NoResult
  /\ InitIdle

NextDist ==
  \/ Call_rankGlobalTile
  \/ Call_localTileFromGlobalTile
  \/ Call_nextLocalTileFromGlobalTile
  \/ Call_globalTileFromLocalTile
  \/ Call_globalTileFromNextLocalTile

SpecDist == InitDist /\ [][NextDist]_vars

(***************************************************************************)
(* The conversions between an element index and the pair (tile, index in   *)
(* the tile), as called by the same test.                                  *)
(***************************************************************************)
tileFromElement(element, block_size) == element \div block_size

tileElementFromElement(element, block_size) == element % block_size

\* A slip: the index in the tile is left out.
elementFromTileAndTileElement_NoTileElement(tile_, tile_element, block_size) ==
  tile_ * block_size

elementFromTileAndTileElement(tile_, tile_element, block_size) ==
  tile_ * block_size + tile_element

\* An element and a block size, and a tile and an index in it.
ElementArgs ==
  { [element |-> e, block_size |-> b, tile |-> t, tile_element |-> o] :
      e \in 0..MaxElement, b \in 1..MaxBlockSize,
      t \in 0..MaxBlockSize, o \in 0..(MaxBlockSize - 1) }

ValidElementArgs == { a \in ElementArgs : a.tile_element < a.block_size }

Call_tileFromElement ==
  /\ ~Called("tile")
  /\ Store("tile", tileFromElement(dargs.element, dargs.block_size))
  /\ UNCHANGED <<dargs, pvars>>

Call_tileElementFromElement ==
  /\ ~Called("tile_element")
  /\ Store("tile_element", tileElementFromElement(dargs.element, dargs.block_size))
  /\ UNCHANGED <<dargs, pvars>>

\* The element of the tile and index in the tile computed from dargs.element.
Call_elementFromTileAndTileElement ==
  /\ Called("tile") /\ Called("tile_element")
  /\ ~Called("element")
  /\ Store("element", elementFromTileAndTileElement(dres["tile"], dres["tile_element"],
                                                    dargs.block_size))
  /\ UNCHANGED <<dargs, pvars>>

\* The element of the given tile and index in the tile.
Call_elementFromGivenTile ==
  /\ ~Called("element_of")
  /\ Store("element_of", elementFromTileAndTileElement(dargs.tile, dargs.tile_element,
                                                       dargs.block_size))
  /\ UNCHANGED <<dargs, pvars>>

\* ... and the tile and index in the tile of that element.
Call_tileFromElementOf ==
  /\ Called("element_of")
  /\ ~Called("tile_of")
  /\ Store("tile_of", tileFromElement(dres["element_of"], dargs.block_size))
  /\ UNCHANGED <<dargs, pvars>>

Call_tileElementFromElementOf ==
  /\ Called("element_of")
  /\ ~Called("tile_element_of")
  /\ Store("tile_element_of", tileElementFromElement(dres["element_of"], dargs.block_size))
  /\ UNCHANGED <<dargs, pvars>>

InitElement ==
  /\ dargs \in ValidElementArgs
  /\ dres = NoResult
  /\ InitIdle

NextElement ==
  \/ Call_tileFromElement
  \/ Call_tileElementFromElement
  \/ Call_elementFromTileAndTileElement
  \/ Call_elementFromGivenTile
  \/ Call_tileFromElementOf
  \/ Call_tileElementFromElementOf

SpecElement == InitElement /\ [][NextElement]_vars

(***************************************************************************)
(* The resource Pipeline (dlaf/common/pipeline.h, used by every file of    *)
(* the repository but not part of the sources at hand): a FIFO broker of   *)
(* exclusive and shared accesses to one resource.  A request is            *)
(* [id, excl]; slog and glog record the order of starts and of grants.     *)
(***************************************************************************)
Pos(seq, x) == CHOOSE i \in DOMAIN seq : seq[i] = x

InSeq(seq, x) == \E i \in DOMAIN seq : seq[i] = x

EmptyPipeline == [queue |-> <<>>, held |-> {}, slog |-> <<>>, glog |-> <<>>]

Request(o, excl) == [id |-> o, excl |-> excl]

Holds(p, o) == \E h \in p.held : h.id = o

Queued(p, o) == \E i \in DOMAIN p.queue : p.queue[i].id = o

\* A slip: an exclusive request at the front is granted whatever is held.
CanGrant_IgnoreHolders(p) ==
  /\ p.queue # <<>>
  /\ (Head(p.queue).excl \/ \A h \in p.held : ~h.excl)

\* A slip: a shared request is granted only when no guard at all is held.
CanGrant_SharedAlone(p) ==
  /\ p.queue # <<>>
  /\ p.held = {}

\* The request at the front can be granted: a shared one when no exclusive
\* guard is held, an exclusive one when no guard is held at all.
CanGrant(p) ==
  /\ p.queue # <<>>
  /\ IF Head(p.queue).excl THEN p.held = {} ELSE \A h \in p.held : ~h.excl

Grant(p) ==
  [p EXCEPT !.queue = Tail(@),
            !.held  = @ \cup {Head(p.queue)},
            !.glog  = Append(@, Head(p.queue).id)]

\* A slip: only one request is granted per start or release.
GrantAll_OnlyOne(p) == IF CanGrant(p) THEN Grant(p) ELSE p

\* Grants the requests at the front of the queue, in order, while they can be.
RECURSIVE GrantAll(_)
GrantAll(p) == IF CanGrant(p) THEN GrantAll(Grant(p)) ELSE p

\* A slip: the new request is put at the front of the queue.
PipelineStart_AtFront(p, rq) ==
  GrantAll([p EXCEPT !.queue = <<rq>> \o @, !.slog = Append(@, rq)])

\* A slip: a new request pushes the request that waits at the front through.
PipelineStart_Pushes(p, rq) ==
  IF p.queue # <<>>
  THEN Grant([p EXCEPT !.queue = Append(@, rq), !.slog = Append(@, rq)])
  ELSE GrantAll([p EXCEPT !.queue = Append(@, rq), !.slog = Append(@, rq)])

\* A slip: a shared request joins the shared holders at once, whoever waits.
PipelineStart_SharedJoins(p, rq) ==
  IF ~rq.excl /\ (\A h \in p.held : ~h.excl)
  THEN [p EXCEPT !.held = @ \cup {rq}, !.slog = Append(@, rq), !.glog = Append(@, rq.id)]
  ELSE GrantAll([p EXCEPT !.queue = Append(@, rq), !.slog = Append(@, rq)])

\* The sender of an access is started: the request joins the queue.
PipelineStart(p, rq) ==
  GrantAll([p EXCEPT !.queue = Append(@, rq), !.slog = Append(@, rq)])

\* A guard is released: the next request(s) are granted.
PipelineRelease(p, o) ==
  GrantAll([p EXCEPT !.held = {h \in @ : h.id # o}])

(***************************************************************************)
(* Operations.  An operation <<rank, k>> is an access to the rank's tile   *)
(* ("read": shared, "rw": exclusive), a bridged MPI call ("mpi") or a      *)
(* collective kernel ("send", "recv", "allreduce").                        *)
(***************************************************************************)
Ops == DOMAIN pc

Ranks == DOMAIN tilePipe

RankOf(o) == o[1]

\* scheduleAllReduceInPlace (declared in all_reduce.h, defined elsewhere):
\* it takes the tile read-write, stages it in and out, and sends it on.
AllReduceInPlace == [exclusive |-> TRUE, copyTo |-> TRUE, copyFrom |-> TRUE, sendsTileOn |-> TRUE]

\* A slip: readwrite() hands out a shared access as read() does.
TileExclusive_AllShared(k) == FALSE

\* The access an operation takes on the tile: a ReadOnlyTileSender is shared,
\* a ReadWriteTileSender (and a guard of exclusiveAccess) is exclusive.
TileExclusive(k) == IF k = "allreduce" THEN AllReduceInPlace.exclusive ELSE k \in {"rw", "recv", "mpi"}

\* A slip: the request is queued when the sender is built.
Construct_Eager(o, k) ==
  /\ pc[o] = "none"
  /\ \A q \in Ops : (RankOf(q) = RankOf(o) /\ q[2] < o[2]) => pc[q] # "none"
  /\ kind' = [kind EXCEPT ![o] = k]
  /\ tilePipe' = [tilePipe EXCEPT ![RankOf(o)] = PipelineStart(@, Request(o, k = "rw"))]
  /\ pc' = [pc EXCEPT ![o] = "constructed"]
  /\ UNCHANGED <<dvars, scn, other, index, commPipe, tile, buf, req, net, issueLog>>

\* readAccess() / exclusiveAccess() only build a sender: nothing is queued.
\* Senders are numbered in the order of their construction.
Construct(o, k) ==
  /\ pc[o] = "none"
  /\ \A q \in Ops : (RankOf(q) = RankOf(o) /\ q[2] < o[2]) => pc[q] # "none"
  /\ kind' = [kind EXCEPT ![o] = k]
  /\ pc' = [pc EXCEPT ![o] = "constructed"]
  /\ UNCHANGED <<dvars, scn, other, index, tilePipe, commPipe, tile, buf, req, net, issueLog>>

\* The sender of a tile access is started.
StartAccess(o) ==
  /\ pc[o] = "constructed" /\ kind[o] \in {"read", "rw"}
  /\ tilePipe' = [tilePipe EXCEPT ![RankOf(o)] =
                    PipelineStart(@, Request(o, TileExclusive(kind[o])))]
  /\ pc' = [pc EXCEPT ![o] = "started"]
  /\ UNCHANGED <<dvars, scn, kind, other, index, commPipe, tile, buf, req, net, issueLog>>

\* The holder of a tile access drops its guard.
ReleaseAccess(o) ==
  /\ pc[o] = "started" /\ Holds(tilePipe[RankOf(o)], o)
  /\ tilePipe' = [tilePipe EXCEPT ![RankOf(o)] = PipelineRelease(@, o)]
  /\ pc' = [pc EXCEPT ![o] = "done"]
  /\ UNCHANGED <<dvars, scn, kind, other, index, commPipe, tile, buf, req, net, issueLog>>

(***************************************************************************)
(* The asynchronous MPI bridge (sender/transform_mpi.h) and the kernels    *)
(* built on it (communication/kernels/broadcast.cpp, all_reduce.h).        *)
(***************************************************************************)
Kernels == {"send", "recv", "allreduce"}

\* Content of freshly allocated (uninitialised) memory: any of these.
Scratch == {0, 7}

\* A slip: the send stages nothing (CopyToDestination::No).
CopyToDestination_Never(k) == FALSE

\* withTemporaryTile<..., CopyToDestination, CopyFromDestination, ...> as the
\* kernels instantiate it.
CopyToDestination(k) == IF k = "allreduce" THEN AllReduceInPlace.copyTo ELSE k = "send"

CopyFromDestination(k) == IF k = "allreduce" THEN AllReduceInPlace.copyFrom ELSE k = "recv"

\* A slip: every kernel drops its tile when it is done.
SendsTileOn_Never(k) == FALSE

\* The kernels that return a ReadWriteTileSender send their tile on.
SendsTileOn(k) == IF k = "allreduce" THEN AllReduceInPlace.sendsTileOn ELSE k = "recv"

\* The buffer the MPI call works on: the staging buffer when the tile's
\* device is not the communication device, else the tile itself.
CommBuffer(o) == IF scn.staging THEN buf[o] ELSE tile[RankOf(o)]

\* The position of the call of o among the MPI calls of its rank: collective
\* calls of a communicator match in the order of their issue.
Slot(o) == Pos(issueLog[RankOf(o)], o)

RECURSIVE SumUpTo(_, _)
SumUpTo(f, n) == IF n = 0 THEN 0 ELSE f[n - 1] + SumUpTo(f, n - 1)

\* A slip: the communicator is asked for together with the tile.
StartKernel_WithComm(o) ==
  /\ pc[o] = "constructed" /\ kind[o] \in Kernels
  /\ tilePipe' = [tilePipe EXCEPT ![RankOf(o)] =
                    PipelineStart(@, Request(o, TileExclusive(kind[o])))]
  /\ commPipe' = [commPipe EXCEPT ![RankOf(o)] = PipelineStart(@, Request(o, TRUE))]
  /\ pc' = [pc EXCEPT ![o] = "waitTile"]
  /\ UNCHANGED <<dvars, scn, kind, other, index, tile, buf, req, net, issueLog>>

\* A slip: in a group of one rank there is nothing to communicate and the
\* kernel is done at once.
StartKernel_SingleRankBypass(o) ==
  /\ pc[o] = "constructed" /\ kind[o] \in Kernels
  /\ tilePipe' = IF scn.nranks = 1 THEN tilePipe
                 ELSE [tilePipe EXCEPT ![RankOf(o)] =
                         PipelineStart(@, Request(o, TileExclusive(kind[o])))]
  /\ pc' = [pc EXCEPT ![o] = IF scn.nranks = 1 THEN "done" ELSE "waitTile"]
  /\ UNCHANGED <<dvars, scn, kind, other, index, commPipe, tile, buf, req, net, issueLog>>

\* scheduleSendBcast / scheduleRecvBcast / scheduleAllReduceInPlace: the
\* returned sender is started, which starts the sender of the tile.
StartKernel(o) ==
  /\ pc[o] = "constructed" /\ kind[o] \in Kernels
  /\ tilePipe' = [tilePipe EXCEPT ![RankOf(o)] =
                    PipelineStart(@, Request(o, TileExclusive(kind[o])))]
  /\ pc' = [pc EXCEPT ![o] = "waitTile"]
  /\ UNCHANGED <<dvars, scn, kind, other, index, commPipe, tile, buf, req, net, issueLog>>

\* transformMPILift(f, pcomm [, guard]): whenAllLift starts the sender of the
\* communicator and, when given, that of a guard of a second resource.
StartCall(o) ==
  /\ pc[o] = "constructed" /\ kind[o] = "mpi"
  /\ commPipe' = [commPipe EXCEPT ![RankOf(o)] = PipelineStart(@, Request(o, TRUE))]
  /\ tilePipe' = IF other[o]
                 THEN [tilePipe EXCEPT ![RankOf(o)] = PipelineStart(@, Request(o, TRUE))]
                 ELSE tilePipe
  /\ pc' = [pc EXCEPT ![o] = "waitArgs"]
  /\ UNCHANGED <<dvars, scn, kind, other, index, tile, buf, req, net, issueLog>>

\* withTemporaryTile, once the tile is available: the staging buffer is
\* allocated (and filled from the tile when CopyToDestination), then the
\* send / recv lambda starts whenAllLift(pcomm, ..., tile_comm) | transformMPI.
Stage(o) ==
  /\ pc[o] = "waitTile" /\ Holds(tilePipe[RankOf(o)], o)
  /\ \E g \in Scratch :
       buf' = [buf EXCEPT ![o] = IF ~scn.staging THEN @
                                 ELSE IF CopyToDestination(kind[o]) THEN tile[RankOf(o)]
                                 ELSE g]
  /\ commPipe' = [commPipe EXCEPT ![RankOf(o)] = PipelineStart(@, Request(o, TRUE))]
  /\ pc' = [pc EXCEPT ![o] = "waitArgs"]
  /\ UNCHANGED <<dvars, scn, kind, other, index, tilePipe, tile, req, net, issueLog>>

\* The values of the predecessor sender are ready.
ArgsReady(o) ==
  /\ Holds(commPipe[RankOf(o)], o)
  /\ (kind[o] = "mpi" /\ other[o]) => Holds(tilePipe[RankOf(o)], o)

\* A slip: the callable is invoked without waiting for the communicator.
Invoke_WithoutGuard(o) ==
  /\ pc[o] = "waitArgs"
  /\ (kind[o] = "mpi" /\ other[o]) => Holds(tilePipe[RankOf(o)], o)
  /\ pc' = [pc EXCEPT ![o] = "inCall"]
  /\ issueLog' = [issueLog EXCEPT ![RankOf(o)] = Append(@, o)]
  /\ UNCHANGED <<dvars, scn, kind, other, index, tilePipe, commPipe, tile, buf, req, net>>

\* MPICallHelper::operator(): on the MPI scheduler, the callable is invoked
\* with the unwrapped arguments and &req.
Invoke(o) ==
  /\ pc[o] = "waitArgs" /\ ArgsReady(o)
  /\ pc' = [pc EXCEPT ![o] = "inCall"]
  /\ issueLog' = [issueLog EXCEPT ![RankOf(o)] = Append(@, o)]
  /\ UNCHANGED <<dvars, scn, kind, other, index, tilePipe, commPipe, tile, buf, req, net>>

\* A slip: the tile is passed by value and released when the callable returns.
Return_DropsTile(o) ==
  /\ pc[o] = "inCall"
  /\ pc' = [pc EXCEPT ![o] = "called"]
  /\ req' = [req EXCEPT ![o] = "pending"]
  /\ net' = [net EXCEPT ![RankOf(o)] =
               (Slot(o) :> (IF kind[o] \in {"send", "allreduce"} THEN CommBuffer(o) ELSE 0)) @@ @]
  /\ tilePipe' = [tilePipe EXCEPT ![RankOf(o)] = PipelineRelease(@, o)]
  /\ UNCHANGED <<dvars, scn, kind, other, index, commPipe, tile, buf, issueLog>>

\* The callable returns: the non-blocking MPI call is issued and req is
\* pending.  The call hands the network the content of its buffer.
Return(o) ==
  /\ pc[o] = "inCall"
  /\ pc' = [pc EXCEPT ![o] = "called"]
  /\ req' = [req EXCEPT ![o] = "pending"]
  /\ net' = [net EXCEPT ![RankOf(o)] =
               (Slot(o) :> (IF kind[o] \in {"send", "allreduce"} THEN CommBuffer(o) ELSE 0)) @@ @]
  /\ UNCHANGED <<dvars, scn, kind, other, index, tilePipe, commPipe, tile, buf, issueLog>>

\* A slip: the guard stays in the argument tuple (nothing is consumed).
ConsumeGuard_Keep(o) ==
  /\ pc[o] = "called"
  /\ pc' = [pc EXCEPT ![o] = "polling"]
  /\ UNCHANGED <<dvars, scn, kind, other, index, tilePipe, commPipe, tile, buf, req, net, issueLog>>

\* A slip: every guard the operation holds is dropped at submission.
ConsumeGuard_AllGuards(o) ==
  /\ pc[o] = "called"
  /\ commPipe' = [commPipe EXCEPT ![RankOf(o)] = PipelineRelease(@, o)]
  /\ tilePipe' = [tilePipe EXCEPT ![RankOf(o)] = PipelineRelease(@, o)]
  /\ pc' = [pc EXCEPT ![o] = "polling"]
  /\ UNCHANGED <<dvars, scn, kind, other, index, tile, buf, req, net, issueLog>>

\* A slip: the guard is passed by reference and lives until the request has
\* completed.
ConsumeGuard_AfterCompletion(o) ==
  /\ pc[o] = "called" /\ req[o] = "complete"
  /\ commPipe' = [commPipe EXCEPT ![RankOf(o)] = PipelineRelease(@, o)]
  /\ pc' = [pc EXCEPT ![o] = "polling"]
  /\ UNCHANGED <<dvars, scn, kind, other, index, tilePipe, tile, buf, req, net, issueLog>>

\* consumePromiseGuardCommunicator over the arguments: the guard of the
\* Communicator, and no other argument, is moved out and destroyed.
ConsumeGuard(o) ==
  /\ pc[o] = "called"
  /\ commPipe' = [commPipe EXCEPT ![RankOf(o)] = PipelineRelease(@, o)]
  /\ pc' = [pc EXCEPT ![o] = "polling"]
  /\ UNCHANGED <<dvars, scn, kind, other, index, tilePipe, tile, buf, req, net, issueLog>>

\* MPI completes a pending request: a broadcast at its root and a plain call
\* at any time, a broadcast at a receiver once the root has issued the
\* matching call, a reduction once every rank has.
CanComplete(o) ==
  CASE kind[o] = "recv"      -> Slot(o) \in DOMAIN net[scn.root]
    [] kind[o] = "allreduce" -> \A r \in Ranks : Slot(o) \in DOMAIN net[r]
    [] OTHER                 -> TRUE

Received(o) ==
  CASE kind[o] = "recv"      -> net[scn.root][Slot(o)]
    [] kind[o] = "allreduce" -> SumUpTo([r \in Ranks |-> net[r][Slot(o)]], scn.nranks)
    [] OTHER                 -> CommBuffer(o)

NetComplete(o) ==
  /\ req[o] = "pending" /\ CanComplete(o)
  /\ req' = [req EXCEPT ![o] = "complete"]
  /\ IF scn.staging
     THEN buf' = [buf EXCEPT ![o] = Received(o)] /\ tile' = tile
     ELSE tile' = [tile EXCEPT ![RankOf(o)] = Received(o)] /\ buf' = buf
  /\ UNCHANGED <<dvars, scn, kind, pc, other, index, tilePipe, commPipe, net, issueLog>>

\* A slip: the test reports every request as no longer pending.
is_request_completed_Never(o) == FALSE

\* A slip: the test returns "flag != 0", TRUE once the request is complete.
is_request_completed_Inverted(o) == req[o] = "complete"

\* The lambda is_request_completed of MPICallHelper: MPI_Test, then
\* "return flag == 0", that is TRUE while the request is still pending.
is_request_completed(o) == req[o] # "complete"

\* A slip: the wait is left without testing the request.
Poll_NoTest(o) ==
  /\ pc[o] = "polling"
  /\ pc' = [pc EXCEPT ![o] = "completed"]
  /\ UNCHANGED <<dvars, scn, kind, other, index, tilePipe, commPipe, tile, buf, req, net, issueLog>>

\* pika::util::yield_while(is_request_completed): the wait ends at the first
\* test that finds the request complete; between tests the worker is yielded.
Poll(o) ==
  /\ pc[o] = "polling" /\ ~is_request_completed(o)
  /\ pc' = [pc EXCEPT ![o] = "completed"]
  /\ UNCHANGED <<dvars, scn, kind, other, index, tilePipe, commPipe, tile, buf, req, net, issueLog>>

\* The bridged call has returned.  A plain call destroys its remaining
\* arguments; a kernel copies the staging buffer back when
\* CopyFromDestination, and then a send drops its read-only tile while a
\* receive or a reduction sends its read-write tile on to the consumer.
Finish(o) ==
  /\ pc[o] = "completed"
  /\ tile' = IF kind[o] \in Kernels /\ scn.staging /\ CopyFromDestination(kind[o])
             THEN [tile EXCEPT ![RankOf(o)] = buf[o]]
             ELSE tile
  /\ tilePipe' = IF SendsTileOn(kind[o])
                 THEN tilePipe
                 ELSE [tilePipe EXCEPT ![RankOf(o)] = PipelineRelease(@, o)]
  /\ pc' = [pc EXCEPT ![o] = IF SendsTileOn(kind[o]) THEN "delivered" ELSE "done"]
  /\ UNCHANGED <<dvars, scn, kind, other, index, commPipe, buf, req, net, issueLog>>

\* The consumer of the read-write tile sender drops the tile.
ReleaseDelivered(o) ==
  /\ pc[o] = "delivered"
  /\ tilePipe' = [tilePipe EXCEPT ![RankOf(o)] = PipelineRelease(@, o)]
  /\ pc' = [pc EXCEPT ![o] = "done"]
  /\ UNCHANGED <<dvars, scn, kind, other, index, commPipe, tile, buf, req, net, issueLog>>

(***************************************************************************)
(* Bridged calls on the communicator of one rank: up to MaxCalls calls,    *)
(* each given the guard of the communicator and possibly a guard of a      *)
(* second resource; their requests complete whenever MPI lets them.        *)
(***************************************************************************)
CallOps(n) == {<<0, k>> : k \in 1..n}

AllCallOps == CallOps(MaxCalls)

InitBridge ==
  /\ dargs = DefaultDistArgs /\ dres = NoResult
  /\ scn = [nranks |-> 1, coll |-> "none", root |-> 0, staging |-> FALSE, tile0 |-> <<>>]
  /\ \E n \in 1..MaxCalls :
       /\ kind = [o \in CallOps(n) |-> "mpi"]
       /\ pc = [o \in CallOps(n) |-> "constructed"]
       /\ other \in [CallOps(n) -> BOOLEAN]
       /\ index = [o \in CallOps(n) |-> 0]
       /\ buf = [o \in CallOps(n) |-> 0]
       /\ req = [o \in CallOps(n) |-> "null"]
  /\ tilePipe = [r \in {0} |-> EmptyPipeline]
  /\ commPipe = [r \in {0} |-> EmptyPipeline]
  /\ tile = [r \in {0} |-> 0]
  /\ net = [r \in {0} |-> <<>>]
  /\ issueLog = [r \in {0} |-> <<>>]

NextBridge ==
  \/ \E o \in Ops : StartCall(o)
  \/ \E o \in Ops : Invoke(o)
  \/ \E o \in Ops : Return(o)
  \/ \E o \in Ops : ConsumeGuard(o)
  \/ \E o \in Ops : NetComplete(o)
  \/ \E o \in Ops : Poll(o)
  \/ \E o \in Ops : Finish(o)

SpecBridge == InitBridge /\ [][NextBridge]_vars

\* A step of the call operator up to the release of the communicator.  Only
\* the call that holds the communicator can take one.
Submit == \E o \in Ops : Invoke(o) \/ Return(o) \/ ConsumeGuard(o)

\* The MPI pool runs a task that is ready (a polling task yields its worker);
\* nothing is assumed on the completion of the requests.
SpecBridgeFair == SpecBridge /\ WF_vars(Submit)

(***************************************************************************)
(* One collective on a group of ranks: a broadcast (the root sends, the    *)
(* others receive) or an in-place sum reduction, one kernel per rank.      *)
(***************************************************************************)
Group(n) == 0..(n - 1)

KernelOf(coll, root, r) ==
  IF coll = "allreduce" THEN "allreduce" ELSE IF r = root THEN "send" ELSE "recv"

\* The tiles before the collective: for a reduction rank r holds r + 1; for a
\* broadcast the root holds root + 1 and the others hold anything.
InitialTiles(n, coll, root) ==
  IF coll = "allreduce"
  THEN {[r \in Group(n) |-> r + 1]}
  ELSE {[r \in Group(n) |-> IF r = root THEN root + 1 ELSE g[r]] : g \in [Group(n) -> Scratch]}

Scenarios ==
  UNION { { [nranks |-> n, coll |-> c, root |-> rt, staging |-> st, tile0 |-> t0] :
              t0 \in InitialTiles(n, c, rt) } :
          n \in 1..MaxRanks, c \in {"bcast", "allreduce"}, rt \in 0..(MaxRanks - 1),
          st \in BOOLEAN }

ValidScenarios == { x \in Scenarios : x.root < x.nranks /\ (x.coll = "allreduce" => x.root = 0) }

InitGroup(ops) ==
  /\ dargs = DefaultDistArgs /\ dres = NoResult
  /\ pc = [o \in ops |-> "constructed"]
  /\ other = [o \in ops |-> FALSE]
  /\ index = [o \in ops |-> 0]
  /\ buf = [o \in ops |-> 0]
  /\ req = [o \in ops |-> "null"]
  /\ tilePipe = [r \in Group(scn.nranks) |-> EmptyPipeline]
  /\ commPipe = [r \in Group(scn.nranks) |-> EmptyPipeline]
  /\ tile = scn.tile0
  /\ net = [r \in Group(scn.nranks) |-> <<>>]
  /\ issueLog = [r \in Group(scn.nranks) |-> <<>>]

\* Every rank schedules its kernel of the collective.
InitCollective ==
  /\ scn \in ValidScenarios
  /\ kind = [o \in {<<r, 1>> : r \in Group(scn.nranks)} |-> KernelOf(scn.coll, scn.root, o[1])]
  /\ InitGroup({<<r, 1>> : r \in Group(scn.nranks)})

NextCollective ==
  \/ \E o \in Ops : StartKernel(o)
  \/ \E o \in Ops : Stage(o)
  \/ \E o \in Ops : Invoke(o)
  \/ \E o \in Ops : Return(o)
  \/ \E o \in Ops : ConsumeGuard(o)
  \/ \E o \in Ops : NetComplete(o)
  \/ \E o \in Ops : Poll(o)
  \/ \E o \in Ops : Finish(o)
  \/ \E o \in Ops : ReleaseDelivered(o)

\* The scheduler runs every ready task and MPI progresses every request.
SpecCollective == InitCollective /\ [][NextCollective]_vars /\ WF_vars(NextCollective)

\* Every rank schedules its kernel, and one rank one more access to its tile.
InitKernel ==
  /\ scn \in ValidScenarios
  /\ \E a \in {"read", "rw"}, ar \in Group(scn.nranks) :
       /\ kind = [o \in {<<r, 1>> : r \in Group(scn.nranks)} \cup {<<ar, 2>>} |->
                    IF o[2] = 1 THEN KernelOf(scn.coll, scn.root, o[1]) ELSE a]
       /\ InitGroup({<<r, 1>> : r \in Group(scn.nranks)} \cup {<<ar, 2>>})

NextKernel ==
  \/ NextCollective
  \/ \E o \in Ops : StartAccess(o)
  \/ \E o \in Ops : ReleaseAccess(o)

SpecKernel == InitKernel /\ [][NextKernel]_vars

NoScenario == [nranks |-> 1, coll |-> "none", root |-> 0, staging |-> FALSE, tile0 |-> <<>>]

PipelineOps == {<<0, k>> : k \in 1..MaxReq}

\* One pipeline and MaxReq senders still to be constructed.
InitPipeline ==
  /\ dargs = DefaultDistArgs /\ dres = NoResult
  /\ scn = NoScenario
  /\ kind = [o \in PipelineOps |-> "none"]
  /\ pc = [o \in PipelineOps |-> "none"]
  /\ other = [o \in PipelineOps |-> FALSE]
  /\ index = [o \in PipelineOps |-> 0]
  /\ tilePipe = [r \in {0} |-> EmptyPipeline]
  /\ commPipe = [r \in {0} |-> EmptyPipeline]
  /\ tile = [r \in {0} |-> 0]
  /\ buf = [o \in PipelineOps |-> 0]
  /\ req = [o \in PipelineOps |-> "null"]
  /\ net = [r \in {0} |-> <<>>]
  /\ issueLog = [r \in {0} |-> <<>>]

NextPipeline ==
  \/ \E o \in PipelineOps, k \in {"read", "rw"} : Construct(o, k)
  \/ \E o \in PipelineOps : StartAccess(o)
  \/ \E o \in PipelineOps : ReleaseAccess(o)

SpecPipeline == InitPipeline /\ [][NextPipeline]_vars

\* Every granted guard is eventually released.
SpecPipelineFair ==
  SpecPipeline /\ \A o \in PipelineOps : WF_vars(ReleaseAccess(o))

(***************************************************************************)
(* The Matrix of one rank (matrix/matrix.h): a column of nr_tiles global   *)
(* tiles distributed block-cyclically, one tile pipeline per tile stored   *)
(* on the rank (tile_managers_), accessed with read / readwrite by global  *)
(* tile index and drained by waitLocalTiles.  tilePipe and tile are here   *)
(* indexed by the local tile index.  The content of a tile is one number:  *)
(* 0 at first, the pattern of its last writer, -1 while it is written.     *)
(***************************************************************************)
MatrixOps == {<<0, k>> : k \in 1..MaxAccess}

WaitOp == <<1, 0>>

\* The distributions of the column as rank 0 sees them.
Distributions ==
  { [coll |-> "matrix", nr_tiles |-> MaxMatrixTiles, tiles_per_block |-> t,
     grid_size |-> n, rank |-> 0, src_rank |-> s] :
      t \in 1..MaxTilesPerBlock, n \in 1..MaxRanks, s \in 0..(MaxRanks - 1) }

ValidDistributions == { x \in Distributions : x.src_rank < x.grid_size }

\* Distribution::localTileIndex(GlobalTileIndex), along the column.
localTileIndex(g) ==
  localTileFromGlobalTile(g, scn.tiles_per_block, scn.grid_size, scn.rank, scn.src_rank)

\* Distribution::localNrTiles(), along the column.
localNrTiles ==
  nextLocalTileFromGlobalTile(scn.nr_tiles, scn.tiles_per_block, scn.grid_size,
                              scn.rank, scn.src_rank)

\* A slip: the matrix has one pipeline for all its tiles.
TileManagerOf_OnePipeline(o) == 0

\* The element of tile_managers_ an access works on.
TileManagerOf(o) == localTileIndex(index[o])

\* A precondition check has failed: the program has stopped.
Failed == \E o \in Ops : pc[o] = "failed"

InitMatrix ==
  /\ dargs = DefaultDistArgs /\ dres = NoResult
  /\ scn \in ValidDistributions
  /\ kind = [o \in MatrixOps \cup {WaitOp} |-> IF o = WaitOp THEN "wait" ELSE "none"]
  /\ pc = [o \in MatrixOps \cup {WaitOp} |-> "none"]
  /\ other = [o \in MatrixOps \cup {WaitOp} |-> FALSE]
  /\ index = [o \in MatrixOps \cup {WaitOp} |-> 0]
  /\ tilePipe = [l \in 0..(localNrTiles - 1) |-> EmptyPipeline]
  /\ commPipe = <<>>
  /\ tile = [l \in 0..(localNrTiles - 1) |-> 0]
  /\ buf = [o \in MatrixOps \cup {WaitOp} |-> 0]
  /\ req = [o \in MatrixOps \cup {WaitOp} |-> "null"]
  /\ net = <<>>
  /\ issueLog = <<>>

\* A slip: the index is not checked, a sender is made for any tile.
MatrixAccess_Unchecked(o, g, k) ==
  /\ ~Failed /\ o \in MatrixOps /\ pc[o] = "none"
  /\ \A q \in MatrixOps : q[2] < o[2] => pc[q] # "none"
  /\ index' = [index EXCEPT ![o] = g]
  /\ kind' = [kind EXCEPT ![o] = k]
  /\ pc' = [pc EXCEPT ![o] = "constructed"]
  /\ UNCHANGED <<dvars, scn, other, tilePipe, commPipe, tile, buf, req, net, issueLog>>

\* read(const GlobalTileIndex&) / readwrite(const GlobalTileIndex&): the index
\* is converted with localTileIndex; a tile that is not stored on the rank
\* fails the precondition, else the sender of tile_managers_[...].read() or
\* .readwrite() is returned (nothing is queued until it is started).
MatrixAccess(o, g, k) ==
  /\ ~Failed /\ o \in MatrixOps /\ pc[o] = "none"
  /\ \A q \in MatrixOps : q[2] < o[2] => pc[q] # "none"
  /\ index' = [index EXCEPT ![o] = g]
  /\ kind' = [kind EXCEPT ![o] = k]
  /\ pc' = [pc EXCEPT ![o] = IF localTileIndex(g) >= 0 THEN "constructed" ELSE "failed"]
  /\ UNCHANGED <<dvars, scn, other, tilePipe, commPipe, tile, buf, req, net, issueLog>>

Matrix_read(o, g) == MatrixAccess(o, g, "read")

Matrix_readwrite(o, g) == MatrixAccess(o, g, "rw")

\* The tile sender is started; the senders are started in the order of the
\* calls that made them.
MatrixStart(o) ==
  /\ ~Failed /\ o \in MatrixOps /\ pc[o] = "constructed"
  /\ \A q \in MatrixOps : q[2] < o[2] => pc[q] \notin {"none", "constructed"}
  /\ TileManagerOf(o) \in DOMAIN tilePipe
  /\ tilePipe' = [tilePipe EXCEPT ![TileManagerOf(o)] =
                    PipelineStart(@, Request(o, TileExclusive(kind[o])))]
  /\ pc' = [pc EXCEPT ![o] = "started"]
  /\ UNCHANGED <<dvars, scn, kind, other, index, commPipe, tile, buf, req, net, issueLog>>

\* The continuation of a read-write tile begins to write its pattern ...
MatrixWrite(o) ==
  /\ ~Failed /\ o \in MatrixOps /\ pc[o] = "started" /\ kind[o] = "rw"
  /\ Holds(tilePipe[TileManagerOf(o)], o)
  /\ tile' = [tile EXCEPT ![TileManagerOf(o)] = -1]
  /\ buf' = [buf EXCEPT ![o] = o[2]]
  /\ pc' = [pc EXCEPT ![o] = "writing"]
  /\ UNCHANGED <<dvars, scn, kind, other, index, tilePipe, commPipe, req, net, issueLog>>

\* ... and ends it; the continuation is over and the tile is dropped.
MatrixWriteEnd(o) ==
  /\ ~Failed /\ o \in MatrixOps /\ pc[o] = "writing"
  /\ tile' = [tile EXCEPT ![TileManagerOf(o)] = buf[o]]
  /\ tilePipe' = [tilePipe EXCEPT ![TileManagerOf(o)] = PipelineRelease(@, o)]
  /\ pc' = [pc EXCEPT ![o] = "done"]
  /\ UNCHANGED <<dvars, scn, kind, other, index, commPipe, buf, req, net, issueLog>>

\* The continuation of a read-only tile reads the content of the tile and
\* drops the tile.
MatrixRead(o) ==
  /\ ~Failed /\ o \in MatrixOps /\ pc[o] = "started" /\ kind[o] = "read"
  /\ Holds(tilePipe[TileManagerOf(o)], o)
  /\ buf' = [buf EXCEPT ![o] = tile[TileManagerOf(o)]]
  /\ tilePipe' = [tilePipe EXCEPT ![TileManagerOf(o)] = PipelineRelease(@, o)]
  /\ pc' = [pc EXCEPT ![o] = "done"]
  /\ UNCHANGED <<dvars, scn, kind, other, index, commPipe, tile, req, net, issueLog>>

\* The access waitLocalTiles takes on the local tile l.
WaitRequest(l) == Request(<<2, l>>, TRUE)

\* A slip: the barrier takes a shared access to each tile.
WaitLocalTiles_Call_Shared ==
  /\ ~Failed /\ pc[WaitOp] = "none"
  /\ tilePipe' = [l \in DOMAIN tilePipe |-> PipelineStart(tilePipe[l], Request(<<2, l>>, FALSE))]
  /\ pc' = [pc EXCEPT ![WaitOp] = "waiting"]
  /\ UNCHANGED <<dvars, scn, kind, other, index, commPipe, tile, buf, req, net, issueLog>>

\* waitLocalTiles() is called: an exclusive access is started on every local
\* tile, behind the accesses already started on it.
WaitLocalTiles_Call ==
  /\ ~Failed /\ pc[WaitOp] = "none"
  /\ tilePipe' = [l \in DOMAIN tilePipe |-> PipelineStart(tilePipe[l], WaitRequest(l))]
  /\ pc' = [pc EXCEPT ![WaitOp] = "waiting"]
  /\ UNCHANGED <<dvars, scn, kind, other, index, commPipe, tile, buf, req, net, issueLog>>

\* The barrier is granted a tile and drops it at once.
WaitLocalTiles_Tile(l) ==
  /\ ~Failed /\ pc[WaitOp] = "waiting"
  /\ Holds(tilePipe[l], <<2, l>>)
  /\ tilePipe' = [tilePipe EXCEPT ![l] = PipelineRelease(@, <<2, l>>)]
  /\ UNCHANGED <<dvars, scn, kind, pc, other, index, commPipe, tile, buf, req, net, issueLog>>

\* The barrier has been granted every local tile.
WaitPassed(l) == InSeq(tilePipe[l].glog, <<2, l>>) /\ ~Holds(tilePipe[l], <<2, l>>)

\* waitLocalTiles() returns.
WaitLocalTiles_Return ==
  /\ ~Failed /\ pc[WaitOp] = "waiting"
  /\ \A l \in DOMAIN tilePipe : WaitPassed(l)
  /\ pc' = [pc EXCEPT ![WaitOp] = "done"]
  /\ UNCHANGED <<dvars, scn, kind, other, index, tilePipe, commPipe, tile, buf, req, net, issueLog>>

NextMatrix ==
  \/ \E o \in MatrixOps, g \in 0..(MaxMatrixTiles - 1) : Matrix_read(o, g)
  \/ \E o \in MatrixOps, g \in 0..(MaxMatrixTiles - 1) : Matrix_readwrite(o, g)
  \/ \E o \in MatrixOps : MatrixStart(o)
  \/ \E o \in MatrixOps : MatrixWrite(o)
  \/ \E o \in MatrixOps : MatrixWriteEnd(o)
  \/ \E o \in MatrixOps : MatrixRead(o)
  \/ WaitLocalTiles_Call
  \/ \E l \in DOMAIN tilePipe : WaitLocalTiles_Tile(l)
  \/ WaitLocalTiles_Return

SpecMatrix == InitMatrix /\ [][NextMatrix]_vars

(***************************************************************************)
(* Claims on the index conversions.                                        *)
(***************************************************************************)
Owner(a, g) == rankGlobalTile(g, a.tiles_per_block, a.grid_size, a.src_rank)

\* C6: for every valid (global_tile, tiles_per_block, grid_size, src_rank)
\* exactly one rank of [0, grid_size) is rankGlobalTile(global_tile, ...), and
\* for that rank globalTileFromLocalTile(localTileFromGlobalTile(global_tile))
\* is global_tile again.
C6_OwnerUniqueAndRoundTrip ==
  /\ Called("rank_tile") =>
       /\ Cardinality({r \in 0..(dargs.grid_size - 1) : r = dres["rank_tile"]}) = 1
       /\ (Called("local_tile") => (dres["local_tile"] >= 0 <=> dargs.rank = dres["rank_tile"]))
  /\ Called("global_tile") => dres["global_tile"] = dargs.global_tile

C6_Witness ==
  /\ Called("rank_tile") /\ Called("global_tile")
  /\ dargs.rank = dres["rank_tile"]
  /\ dargs.src_rank > 0 /\ dargs.tiles_per_block > 1
  /\ dargs.global_tile >= dargs.tiles_per_block * dargs.grid_size

\* C7: nextLocalTileFromGlobalTile(g, ...) equals localTileFromGlobalTile(g, ...)
\* on the rank that owns g; on any other rank the tile it returns, mapped back
\* with globalTileFromLocalTile, is the smallest global tile >= g the rank owns.
C7_NextLocalTile ==
  /\ (Called("local_tile") /\ Called("local_tile_next") /\ dargs.rank = Owner(dargs, dargs.global_tile))
       => dres["local_tile_next"] = dres["local_tile"]
  /\ (Called("global_tile_next") /\ dargs.rank # Owner(dargs, dargs.global_tile))
       => LET G == dres["global_tile_next"]
          IN  /\ G >= dargs.global_tile
              /\ Owner(dargs, G) = dargs.rank
              /\ \A h \in dargs.global_tile..(G - 1) : Owner(dargs, h) # dargs.rank

\* A rank that does not own g, placed after the owner in the cycle (no
\* advance to the next cycle), asked at the last tile of a block.
C7_Witness ==
  /\ Called("global_tile_next")
  /\ dargs.rank # Owner(dargs, dargs.global_tile)
  /\ (dargs.rank + dargs.grid_size - dargs.src_rank) % dargs.grid_size
       > (dargs.global_tile \div dargs.tiles_per_block) % dargs.grid_size
  /\ dargs.tiles_per_block > 1
  /\ dargs.global_tile % dargs.tiles_per_block = dargs.tiles_per_block - 1
  /\ dres["global_tile_next"] > dargs.global_tile

(***************************************************************************)
(* Claims on the Pipeline.                                                 *)
(***************************************************************************)
Pipelines == {tilePipe[r] : r \in DOMAIN tilePipe} \cup {commPipe[r] : r \in DOMAIN commPipe}

\* C1: the guards held on a pipeline are none, or exactly one exclusive guard
\* and no shared one, or shared guards only; so an exclusive request started
\* after granted shared ones waits for all of them, and a shared request
\* started after a granted exclusive one waits for its release.
C1_ExclusiveXorShared ==
  \A p \in Pipelines :
    \/ p.held = {}
    \/ Cardinality(p.held) = 1 /\ \A h \in p.held : h.excl
    \/ \A h \in p.held : ~h.excl

\* Two shared guards are held and an exclusive request started after them waits.
C1_Witness ==
  LET p == tilePipe[0]
  IN  /\ Cardinality({h \in p.held : ~h.excl}) = 2
      /\ p.queue # <<>> /\ Head(p.queue).excl

\* C2: on one pipeline, of two started requests of which at least one is
\* exclusive, the one started first is granted first, whatever the order in
\* which the senders were constructed.
C2_GrantedInStartOrder ==
  \A p \in Pipelines :
    \A i, j \in DOMAIN p.slog :
      (i < j /\ (p.slog[i].excl \/ p.slog[j].excl) /\ InSeq(p.glog, p.slog[j].id))
        => /\ InSeq(p.glog, p.slog[i].id)
           /\ Pos(p.glog, p.slog[i].id) < Pos(p.glog, p.slog[j].id)

\* The sender constructed second was started first and granted first; the
\* sender constructed first was granted after it.
C2_Witness ==
  LET p == tilePipe[0]
  IN  /\ Len(p.slog) >= 2 /\ Len(p.glog) >= 2
      /\ p.slog[1].id = <<0, 2>> /\ p.slog[2].id = <<0, 1>>
      /\ (p.slog[1].excl \/ p.slog[2].excl)
      /\ p.glog[1] = <<0, 2>> /\ p.glog[2] = <<0, 1>>

\* C10: when every granted guard is eventually released, every started
\* request is eventually granted, and after every start or release no
\* request that could be granted is left waiting at the front of the queue.
C10_PipelineLiveness ==
  /\ \A o \in PipelineOps : (pc[o] = "started") ~> InSeq(tilePipe[0].glog, o)
  /\ [](\A p \in Pipelines : ~CanGrant(p))

\* Two shared requests wait behind an exclusive guard: its release grants both.
C10_Witness ==
  LET p == tilePipe[0]
  IN  /\ Len(p.queue) = 2 /\ p.held # {}
      /\ ~p.queue[1].excl /\ ~p.queue[2].excl

(***************************************************************************)
(* Claims on the MPI bridge.                                               *)
(***************************************************************************)
HoldsComm(o) == Holds(commPipe[RankOf(o)], o)

HoldsTile(o) == Holds(tilePipe[RankOf(o)], o)

\* The guards passed to the bridged call of o as arguments that o still holds.
GivenGuardsHeld(o) ==
  {g \in {"communicator", "other"} :
     \/ g = "communicator" /\ HoldsComm(o)
     \/ g = "other" /\ kind[o] = "mpi" /\ other[o] /\ HoldsTile(o)}

\* C3, as stated: no bridged call polls for completion while it still holds
\* any guard it was given.
C3_NoGuardHeldWhilePolling ==
  \A o \in Ops : pc[o] = "polling" => GivenGuardsHeld(o) = {}

\* C3, amended: the guard of the communicator is held while the callable
\* runs and until it has returned, and is released before the wait for the
\* request begins; a guard of another resource stays held while the call polls.
C3_CommGuardReleasedBeforePolling ==
  \A o \in Ops :
    /\ pc[o] \in {"inCall", "called"} => HoldsComm(o)
    /\ pc[o] = "polling" => "communicator" \notin GivenGuardsHeld(o)
    /\ (pc[o] = "polling" /\ kind[o] = "mpi" /\ other[o]) => "other" \in GivenGuardsHeld(o)

\* A call polls a pending request while the next call already has the communicator.
C3_Witness ==
  \E o, q \in Ops :
    /\ o # q /\ pc[o] = "polling" /\ req[o] = "pending"
    /\ ~HoldsComm(o) /\ InSeq(commPipe[0].glog, o)
    /\ HoldsComm(q) /\ pc[q] = "inCall"

\* C4: two bridged calls that obtain the same communicator through its
\* pipeline invoke their callables in the order of the grants: a call is
\* invoked only after the calls granted before it have returned, and no two
\* invocations overlap, in whatever order the requests complete.
C4_IssuedInGrantOrder ==
  \A r \in Ranks :
    /\ Len(issueLog[r]) <= Len(commPipe[r].glog)
    /\ \A i \in DOMAIN issueLog[r] :
         /\ issueLog[r][i] = commPipe[r].glog[i]
         /\ i < Len(issueLog[r]) => pc[issueLog[r][i]] \notin {"waitArgs", "inCall"}
    /\ Cardinality({o \in Ops : RankOf(o) = r /\ pc[o] = "inCall"}) <= 1

\* Two calls were issued in grant order and the later one completed first.
C4_Witness ==
  /\ Len(issueLog[0]) >= 2
  /\ req[issueLog[0][1]] = "pending"
  /\ req[issueLog[0][2]] = "complete"

(***************************************************************************)
(* Claims on the kernels.                                                  *)
(***************************************************************************)
KernelOps == {o \in Ops : kind[o] \in Kernels}

Complete(o) == pc[o] \in {"delivered", "done"}

AllComplete == \A o \in KernelOps : Complete(o)

SumOfRanks == (scn.nranks * (scn.nranks + 1)) \div 2

\* C5: scheduleAllReduceInPlace holds the exclusive access to its tile from
\* before the reduce call is issued until after the result is copied back:
\* meanwhile no other accessor of the tile is granted, and the tile is
\* released only after it holds the combined result.
C5_TileHeldThroughAllReduce ==
  \A o \in KernelOps :
    kind[o] = "allreduce" =>
      /\ pc[o] \in {"waitArgs", "inCall", "called", "polling", "completed", "delivered"}
           => tilePipe[RankOf(o)].held = {Request(o, TRUE)}
      /\ pc[o] \in {"delivered", "done"} => tile[RankOf(o)] = SumOfRanks

\* A reduction polls while another access to its tile waits in the queue.
C5_Witness ==
  \E o \in KernelOps :
    /\ kind[o] = "allreduce" /\ pc[o] = "polling" /\ scn.nranks >= 2
    /\ tilePipe[RankOf(o)].queue # <<>>

\* C8: when the root runs scheduleSendBcast on a tile holding V and every
\* other rank runs scheduleRecvBcast with that root on a tile of arbitrary
\* content, all the operations eventually complete, and once they have the
\* tile of every rank holds V.
C8_BroadcastEndToEnd ==
  /\ (scn.coll = "bcast") ~> AllComplete
  /\ []((scn.coll = "bcast" /\ AllComplete) => \A r \in Ranks : tile[r] = scn.tile0[scn.root])

\* A broadcast over two ranks through staging buffers has completed on a
\* receiver whose tile held something else.
C8_Witness ==
  /\ scn.coll = "bcast" /\ scn.nranks >= 2 /\ scn.staging /\ AllComplete
  /\ \E r \in Ranks : scn.tile0[r] # scn.tile0[scn.root] /\ tile[r] = scn.tile0[scn.root]

\* C9: when rank r of gridSize ranks holds r + 1 and every rank runs
\* scheduleAllReduceInPlace with the sum, all the operations eventually
\* complete, and once they have every tile holds gridSize * (gridSize + 1) / 2.
C9_AllReduceEndToEnd ==
  /\ (scn.coll = "allreduce") ~> AllComplete
  /\ []((scn.coll = "allreduce" /\ AllComplete) => \A r \in Ranks : tile[r] = SumOfRanks)

\* A sum reduction over two ranks or more has completed on every rank.
C9_Witness ==
  /\ scn.coll = "allreduce" /\ scn.nranks >= 2 /\ AllComplete
  /\ \A r \in Ranks : scn.tile0[r] = r + 1 /\ tile[r] = SumOfRanks

(***************************************************************************)
(* More claims on the Pipeline.                                            *)
(***************************************************************************)
\* An exclusive request stands before position i of the queue of p, or an
\* exclusive guard is held.
ExclusiveAhead(p, i) ==
  \/ \E h \in p.held : h.excl
  \/ \E j \in 1..(i - 1) : p.queue[j].excl

\* C11: a started shared request with no exclusive request ahead of it is
\* granted without waiting for any other shared request: shared requests that
\* still wait all have an exclusive request (queued or held) ahead of them,
\* so all leading shared requests of the queue are granted together.
C11_SharedGrantedTogether ==
  \A p \in Pipelines :
    \A i \in DOMAIN p.queue : ~p.queue[i].excl => ExclusiveAhead(p, i)

\* MaxReq shared requests were started one after the other, none has
\* released, and all of them hold the resource.
C11_Witness ==
  LET p == tilePipe[0]
  IN  /\ Len(p.slog) = MaxReq /\ \A i \in DOMAIN p.slog : ~p.slog[i].excl
      /\ Cardinality(p.held) = MaxReq
      /\ \A o \in PipelineOps : pc[o] = "started"

(***************************************************************************)
(* More claims on the MPI bridge.                                          *)
(***************************************************************************)
\* The call operator of MPICallHelper has returned: the node has delivered
\* its result (or void) to the continuation.
Resolved(o) == pc[o] \in {"completed", "delivered", "done"}

\* C12: a node of the bridge resolves only after the test of its request has
\* reported the request complete: no node has delivered its result while its
\* request is still pending.
C12_ResolvedOnlyWhenComplete ==
  \A o \in Ops : (kind[o] = "mpi" /\ Resolved(o)) => req[o] = "complete"

\* A call has resolved after its request completed while another call, issued
\* before it, still polls a pending request.
C12_Witness ==
  \E o, q \in Ops :
    /\ o # q /\ Resolved(o) /\ req[o] = "complete"
    /\ pc[q] = "polling" /\ req[q] = "pending"
    /\ Slot(q) < Slot(o)

\* The bridged calls wait on the communicator alone.
OnlyCommunicatorGuards == \A q \in Ops : ~other[q]

\* C13: the next user of a communicator pipeline is granted the communicator
\* as soon as the previous call is submitted, whether or not any request
\* completes.  With no assumption on the completion of requests, from some
\* point on no call is left between its invocation and the release of the
\* communicator, and every started call that waits on the communicator alone
\* has been issued; and the communicator is never free while a user waits.
C13_NextUserGrantedAtSubmission ==
  /\ <>[](\A o \in Ops :
            /\ pc[o] \notin {"inCall", "called"}
            /\ (pc[o] # "constructed" /\ OnlyCommunicatorGuards) => InSeq(issueLog[0], o))
  /\ [](\A r \in Ranks : commPipe[r].held = {} => commPipe[r].queue = <<>>)

\* Every call has been issued and polls; no request has completed.
C13_Witness ==
  /\ Cardinality(Ops) >= 2 /\ OnlyCommunicatorGuards
  /\ \A o \in Ops : pc[o] = "polling" /\ req[o] = "pending"

(***************************************************************************)
(* More claims on the index conversions.                                   *)
(***************************************************************************)
\* The global tiles below n that the rank of a owns.
OwnedBelow(a, n) == {g \in 0..(n - 1) : Owner(a, g) = a.rank}

\* C17: for every rank and every N >= 0 the number of global tiles of [0, N)
\* the rank owns is nextLocalTileFromGlobalTile(N, ...), and the local index
\* of an owned tile is the number of owned tiles before it, so the local
\* indices of the owned tiles are 0, 1, ..., count - 1 in global order.
C17_LocalTileCount ==
  /\ Called("local_tile_next")
       => dres["local_tile_next"] = Cardinality(OwnedBelow(dargs, dargs.global_tile))
  /\ (Called("local_tile") /\ dres["local_tile"] >= 0)
       => dres["local_tile"] = Cardinality(OwnedBelow(dargs, dargs.global_tile))

\* A rank other than src_rank that does not own tile N and owns tiles of
\* more than one block below N.
C17_Witness ==
  /\ Called("local_tile_next") /\ Called("local_tile")
  /\ dres["local_tile"] = -1
  /\ dargs.src_rank > 0 /\ dargs.rank # dargs.src_rank
  /\ dres["local_tile_next"] > dargs.tiles_per_block
  /\ dargs.grid_size > 1

\* C18: rankGlobalTile(global_tile, tiles_per_block, grid_size, src_rank) is
\* (global_tile / tiles_per_block + src_rank) mod grid_size, a rank of
\* [0, grid_size): the first tiles_per_block tiles belong to src_rank, the
\* tiles of one block have one owner, and the owner of the next block is
\* (owner + 1) mod grid_size.
C18_RankGlobalTile ==
  Called("rank_tile") =>
    LET g == dargs.global_tile
        t == dargs.tiles_per_block
        n == dargs.grid_size
        r == dres["rank_tile"]
    IN  /\ r = ((g \div t) + dargs.src_rank) % n
        /\ r \in 0..(n - 1)
        /\ g < t => r = dargs.src_rank
        /\ \A h \in 0..MaxGlobalTile : (h \div t = g \div t) => Owner(dargs, h) = r
        /\ Owner(dargs, g + t) = (r + 1) % n

\* The owner of a tile of a later cycle, in blocks of several tiles on a grid
\* of several ranks whose first block is not on rank 0: the ranks have wrapped.
C18_Witness ==
  /\ Called("rank_tile")
  /\ dargs.tiles_per_block > 1 /\ dargs.grid_size > 1 /\ dargs.src_rank > 0
  /\ dargs.global_tile >= dargs.tiles_per_block * dargs.grid_size
  /\ dres["rank_tile"] < dargs.src_rank

\* C19: localTileFromGlobalTile(global_tile, ..., rank, src_rank) is -1 if and
\* only if rank is not rankGlobalTile(global_tile, ...); on the owner it is
\* the non-negative value
\* (global_tile / tiles_per_block / grid_size) * tiles_per_block
\*   + global_tile % tiles_per_block.
C19_LocalTileFromGlobalTile ==
  (Called("local_tile") /\ Called("rank_tile")) =>
    LET g == dargs.global_tile
        t == dargs.tiles_per_block
        l == dres["local_tile"]
    IN  /\ l = -1 <=> dargs.rank # dres["rank_tile"]
        /\ dargs.rank = dres["rank_tile"]
             => /\ l >= 0
                /\ l = ((g \div t) \div dargs.grid_size) * t + (g % t)

\* A rank that does not own the tile gets -1 where a rule that deals single
\* tiles, not blocks, round the ranks would have taken it for the owner.
C19_Witness ==
  /\ Called("local_tile") /\ Called("rank_tile")
  /\ dres["local_tile"] = -1
  /\ dargs.tiles_per_block > 1 /\ dargs.global_tile % dargs.tiles_per_block > 0
  /\ (dargs.global_tile + dargs.src_rank) % dargs.grid_size = dargs.rank

\* C20: for every element e >= 0 and block size b > 0,
\* elementFromTileAndTileElement(tileFromElement(e, b),
\* tileElementFromElement(e, b), b) is e, with
\* 0 <= tileElementFromElement(e, b) < b; and for every tile t >= 0 and index
\* 0 <= o < b, tileFromElement and tileElementFromElement of
\* elementFromTileAndTileElement(t, o, b) are t and o.
C20_ElementRoundTrip ==
  /\ Called("element") => dres["element"] = dargs.element
  /\ Called("tile_element") => dres["tile_element"] \in 0..(dargs.block_size - 1)
  /\ Called("tile_of") => dres["tile_of"] = dargs.tile
  /\ Called("tile_element_of") => dres["tile_element_of"] = dargs.tile_element

\* Both round trips are done, on an element that is not the first of its
\* tile and on a tile and an index in it that are not 0.
C20_Witness ==
  /\ Called("element") /\ Called("tile_of") /\ Called("tile_element_of")
  /\ dargs.block_size > 1
  /\ dres["tile"] > 0 /\ dres["tile_element"] > 0
  /\ dargs.tile > 0 /\ dargs.tile_element = dargs.block_size - 1

(***************************************************************************)
(* Claims on the Matrix.                                                   *)
(***************************************************************************)
\* The accesses that have been queued on some tile pipeline.
QueuedAccesses == UNION {{p.slog[i].id : i \in DOMAIN p.slog} : p \in Pipelines}

\* The global tile an access was called with is stored on another rank.
NotLocal(o) ==
  scn.rank # rankGlobalTile(index[o], scn.tiles_per_block, scn.grid_size, scn.src_rank)

\* C14: read(GlobalTileIndex) and readwrite(GlobalTileIndex) for a global tile
\* that is not stored on the calling rank fail the precondition check at the
\* call: no tile sender is produced and no access is queued on any local tile
\* pipeline (and a call for a tile that is stored on the rank does not fail).
C14_NonLocalAccessFails ==
  \A o \in MatrixOps :
    pc[o] # "none" =>
      /\ NotLocal(o) => (pc[o] = "failed" /\ o \notin QueuedAccesses)
      /\ pc[o] = "failed" => NotLocal(o)

\* The second access names a tile of another rank and fails, on a rank that
\* stores a tile on which the first access is already queued.
C14_Witness ==
  /\ pc[<<0, 2>>] = "failed" /\ NotLocal(<<0, 2>>)
  /\ <<0, 1>> \in QueuedAccesses
  /\ <<0, 2>> \notin QueuedAccesses

\* The position of the request of id in the order of starts of pipeline p.
StartPos(p, id) == CHOOSE i \in DOMAIN p.slog : p.slog[i].id = id

\* The read-write accesses started on p before the request of id.
WritersBefore(p, id) ==
  {p.slog[j].id : j \in {i \in 1..(StartPos(p, id) - 1) :
                           p.slog[i].id \in MatrixOps /\ kind[p.slog[i].id] = "rw"}}

\* The one started last among them.
LastWriterBefore(p, id) ==
  CHOOSE w \in WritersBefore(p, id) :
    \A v \in WritersBefore(p, id) : StartPos(p, v) <= StartPos(p, w)

\* C15: on every local tile, a read access started after a readwrite access
\* is granted only after the writer has released, and it observes exactly the
\* content the writer left in the tile: the pattern of the last writer
\* started before it (the initial content when there is none).
C15_ReadObservesWrite ==
  \A o \in MatrixOps :
    (kind[o] = "read" /\ o \in QueuedAccesses) =>
      LET p == tilePipe[TileManagerOf(o)]
      IN  /\ InSeq(p.glog, o) => \A w \in WritersBefore(p, o) : pc[w] = "done"
          /\ pc[o] = "done" =>
               buf[o] = IF WritersBefore(p, o) = {} THEN 0
                        ELSE LastWriterBefore(p, o)[2]

\* A read started while the writer of the tile was still at work has read
\* the pattern of the writer, on a local tile that is not the first one.
C15_Witness ==
  \E o, w \in MatrixOps :
    /\ kind[o] = "read" /\ kind[w] = "rw" /\ pc[o] = "done" /\ pc[w] = "done"
    /\ TileManagerOf(o) = TileManagerOf(w) /\ TileManagerOf(o) > 0
    /\ StartPos(tilePipe[TileManagerOf(o)], w) < StartPos(tilePipe[TileManagerOf(o)], o)
    /\ buf[o] = w[2] /\ tile[TileManagerOf(o)] = w[2]

\* The accesses started on the local tile l before waitLocalTiles was called.
StartedBeforeWait(l) ==
  {tilePipe[l].slog[j].id : j \in 1..(StartPos(tilePipe[l], <<2, l>>) - 1)}

AllDoneBeforeWait ==
  \A l \in DOMAIN tilePipe : \A o \in StartedBeforeWait(l) : pc[o] = "done"

\* C16: waitLocalTiles does not return until every access, read-only and
\* read-write, requested (started) before the call on any local tile has
\* completed and released its tile; and once they all have, nothing else
\* keeps it from returning: it has been granted every local tile.
C16_WaitLocalTiles ==
  /\ pc[WaitOp] = "done" => AllDoneBeforeWait
  /\ (pc[WaitOp] = "waiting" /\ AllDoneBeforeWait)
       => \A l \in DOMAIN tilePipe : InSeq(tilePipe[l].glog, <<2, l>>)

\* waitLocalTiles has returned after a read-only and a read-write access
\* that were started before it, on a rank with more than one local tile.
C16_Witness ==
  /\ pc[WaitOp] = "done" /\ localNrTiles > 1
  /\ \E o, w \in MatrixOps :
       /\ kind[o] = "read" /\ kind[w] = "rw"
       /\ o \in StartedBeforeWait(TileManagerOf(o))
       /\ w \in StartedBeforeWait(TileManagerOf(w))

(***************************************************************************)
(* Claims on the frame of the kernels.                                     *)
(***************************************************************************)
\* C21: scheduleSendBcast takes its tile read-only and leaves it as it was:
\* its request on the tile is a shared one, the staging buffer (when one is
\* used) holds a copy of the tile, nothing is copied back, so the tile holds
\* its initial values before, during and after the send.
C21_SendLeavesTileUnchanged ==
  \A o \in KernelOps :
    kind[o] = "send" =>
      /\ tile[RankOf(o)] = scn.tile0[RankOf(o)]
      /\ \A i \in DOMAIN tilePipe[RankOf(o)].slog :
           tilePipe[RankOf(o)].slog[i].id = o => ~tilePipe[RankOf(o)].slog[i].excl
      /\ (scn.staging /\ pc[o] \in {"waitArgs", "inCall", "called", "polling", "completed", "done"})
           => buf[o] = tile[RankOf(o)]

\* A staged send is in flight while another reader holds the same tile.
C21_Witness ==
  \E o \in KernelOps, q \in Ops :
    /\ kind[o] = "send" /\ pc[o] = "polling" /\ scn.staging
    /\ kind[q] = "read" /\ pc[q] = "started" /\ RankOf(q) = RankOf(o)
    /\ Holds(tilePipe[RankOf(o)], o) /\ Holds(tilePipe[RankOf(o)], q)

(***************************************************************************)
(* Entry points of the algorithms (permutations/general.h,                 *)
(* eigensolver/reduction_to_band.h): a list of DLAF_ASSERT, then the call  *)
(* of the implementation.  A matrix is described by what the assertions    *)
(* look at: its size, its block size and the size of its process grid (1   *)
(* for a local matrix).  dargs holds the arguments of the one call;        *)
(* tilePipe[0], [1], [2] stand for the tiles of perms, mat_in (or mat_a)   *)
(* and mat_out, commPipe[0] for the communicator.                          *)
(***************************************************************************)
ApiCall == <<0, 1>>

\* The arguments of the calls, bounded; the local overloads take no grid.
\* perms is a tiled column vector, or something that is not one.
ApiArgs ==
  LET GridSizes == {1, 2}
      MatrixDescs == [size : {<<2, 2>>, <<4, 4>>, <<2, 4>>},
                      block : {<<1, 1>>, <<2, 2>>, <<1, 2>>}, grid : GridSizes]
      PermsDescs == [size : {<<2, 1>>, <<4, 1>>, <<2, 2>>},
                     block : {<<1, 1>>, <<2, 1>>}, grid : GridSizes]
      PermuteArgs == [fn : {"permute", "permute_pipeline"}, grid : GridSizes,
                      i_begin : -1..1, i_end : 0..2,
                      perms : PermsDescs, mat_in : MatrixDescs, mat_out : MatrixDescs]
      ReductionArgs == [fn : {"reductionToBand", "reductionToBand_grid"}, grid : GridSizes,
                        mat_a : MatrixDescs, band_size : 0..3]
  IN  {a \in PermuteArgs \cup ReductionArgs :
         a.fn \in {"permute", "reductionToBand"} => a.grid = 1}

\* Matrix::nrTiles().rows()
nrTilesRows(m) == (m.size[1] + m.block[1] - 1) \div m.block[1]

\* internal::Permutations::call: the tiles of perms and mat_in in
\* [i_begin, i_end) are read and those of mat_out written; the distributed
\* implementation orders its collective calls on sub_task_chain.
Permutations_call(a, distributed) ==
  /\ tilePipe' = [m \in DOMAIN tilePipe |->
                    IF a.i_begin < a.i_end
                    THEN PipelineStart(tilePipe[m], Request(ApiCall, m = 2))
                    ELSE tilePipe[m]]
  /\ commPipe' = IF distributed /\ a.i_begin < a.i_end
                 THEN [commPipe EXCEPT ![0] = PipelineStart(@, Request(ApiCall, TRUE))]
                 ELSE commPipe
  /\ pc' = [pc EXCEPT ![ApiCall] = "running"]

\* internal::ReductionToBand::call: mat_a is overwritten in place; the
\* distributed implementation communicates on the grid.
ReductionToBand_call(a, distributed) ==
  /\ tilePipe' = [tilePipe EXCEPT ![1] = PipelineStart(@, Request(ApiCall, TRUE))]
  /\ commPipe' = IF distributed
                 THEN [commPipe EXCEPT ![0] = PipelineStart(@, Request(ApiCall, TRUE))]
                 ELSE commPipe
  /\ pc' = [pc EXCEPT ![ApiCall] = "running"]

\* A slip: the implementation is called first, the arguments checked after.
permute_CheckedLate ==
  /\ pc[ApiCall] = "none" /\ dargs.fn = "permute"
  /\ tilePipe' = [m \in DOMAIN tilePipe |->
                    IF dargs.i_begin < dargs.i_end
                    THEN PipelineStart(tilePipe[m], Request(ApiCall, m = 2))
                    ELSE tilePipe[m]]
  /\ commPipe' = commPipe
  /\ pc' = [pc EXCEPT ![ApiCall] =
              IF /\ dargs.perms.grid = 1 /\ dargs.mat_in.grid = 1 /\ dargs.mat_out.grid = 1
                 /\ dargs.mat_in.size[1] = dargs.mat_in.size[2]
                 /\ dargs.mat_in.block[1] = dargs.mat_in.block[2]
                 /\ dargs.mat_in.size = dargs.mat_out.size
                 /\ dargs.mat_in.block = dargs.mat_out.block
                 /\ dargs.perms.size[1] = dargs.mat_in.size[1]
                 /\ dargs.perms.size[2] = 1
                 /\ dargs.perms.block[1] = dargs.mat_in.block[1]
                 /\ dargs.i_begin >= 0 /\ dargs.i_begin <= dargs.i_end
                 /\ dargs.i_end <= nrTilesRows(dargs.perms)
              THEN "running" ELSE "failed"]
  /\ UNCHANGED <<dvars, scn, kind, other, index, tile, buf, req, net, issueLog>>

\* permute(i_begin, i_end, perms, mat_in, mat_out): the assertions in the
\* order of the source (local_matrix x3, square_size, square_blocksize,
\* equal_size, equal_blocksize, perms against mat_in, index range), then the
\* implementation.  A failed DLAF_ASSERT stops the program.
permute ==
  /\ pc[ApiCall] = "none" /\ dargs.fn = "permute"
  /\ IF /\ dargs.perms.grid = 1
        /\ dargs.mat_in.grid = 1
        /\ dargs.mat_out.grid = 1
        /\ dargs.mat_in.size[1] = dargs.mat_in.size[2]
        /\ dargs.mat_in.block[1] = dargs.mat_in.block[2]
        /\ dargs.mat_in.size = dargs.mat_out.size
        /\ dargs.mat_in.block = dargs.mat_out.block
        /\ dargs.perms.size[1] = dargs.mat_in.size[1]
        /\ dargs.perms.size[2] = 1
        /\ dargs.perms.block[1] = dargs.mat_in.block[1]
        /\ dargs.i_begin >= 0 /\ dargs.i_begin <= dargs.i_end
        /\ dargs.i_end <= nrTilesRows(dargs.perms)
     THEN Permutations_call(dargs, FALSE)
     ELSE pc' = [pc EXCEPT ![ApiCall] = "failed"] /\ UNCHANGED <<tilePipe, commPipe>>
  /\ UNCHANGED <<dvars, scn, kind, other, index, tile, buf, req, net, issueLog>>

\* permute(grid, sub_task_chain, i_begin, i_end, perms, mat_in, mat_out):
\* local_matrix(perms), equal_process_grid of mat_in and mat_out with grid,
\* then the same assertions as the local overload.
permute_pipeline ==
  /\ pc[ApiCall] = "none" /\ dargs.fn = "permute_pipeline"
  /\ IF /\ dargs.perms.grid = 1
        /\ dargs.mat_in.grid = dargs.grid
        /\ dargs.mat_out.grid = dargs.grid
        /\ dargs.mat_in.size[1] = dargs.mat_in.size[2]
        /\ dargs.mat_in.block[1] = dargs.mat_in.block[2]
        /\ dargs.mat_in.size = dargs.mat_out.size
        /\ dargs.mat_in.block = dargs.mat_out.block
        /\ dargs.perms.size[1] = dargs.mat_in.size[1]
        /\ dargs.perms.size[2] = 1
        /\ dargs.perms.block[1] = dargs.mat_in.block[1]
        /\ dargs.i_begin >= 0 /\ dargs.i_begin <= dargs.i_end
        /\ dargs.i_end <= nrTilesRows(dargs.perms)
     THEN Permutations_call(dargs, TRUE)
     ELSE pc' = [pc EXCEPT ![ApiCall] = "failed"] /\ UNCHANGED <<tilePipe, commPipe>>
  /\ UNCHANGED <<dvars, scn, kind, other, index, tile, buf, req, net, issueLog>>

\* reductionToBand(mat_a, band_size): square_size, square_blocksize,
\* local_matrix, band_size >= 2, blockSize().rows() % band_size == 0.
reductionToBand ==
  /\ pc[ApiCall] = "none" /\ dargs.fn = "reductionToBand"
  /\ IF /\ dargs.mat_a.size[1] = dargs.mat_a.size[2]
        /\ dargs.mat_a.block[1] = dargs.mat_a.block[2]
        /\ dargs.mat_a.grid = 1
        /\ dargs.band_size >= 2
        /\ dargs.mat_a.block[1] % dargs.band_size = 0
     THEN ReductionToBand_call(dargs, FALSE)
     ELSE pc' = [pc EXCEPT ![ApiCall] = "failed"] /\ UNCHANGED <<tilePipe, commPipe>>
  /\ UNCHANGED <<dvars, scn, kind, other, index, tile, buf, req, net, issueLog>>

\* reductionToBand(grid, mat_a, band_size): as above with
\* equal_process_grid(mat_a, grid) in place of local_matrix.
reductionToBand_grid ==
  /\ pc[ApiCall] = "none" /\ dargs.fn = "reductionToBand_grid"
  /\ IF /\ dargs.mat_a.size[1] = dargs.mat_a.size[2]
        /\ dargs.mat_a.block[1] = dargs.mat_a.block[2]
        /\ dargs.mat_a.grid = dargs.grid
        /\ dargs.band_size >= 2
        /\ dargs.mat_a.block[1] % dargs.band_size = 0
     THEN ReductionToBand_call(dargs, TRUE)
     ELSE pc' = [pc EXCEPT ![ApiCall] = "failed"] /\ UNCHANGED <<tilePipe, commPipe>>
  /\ UNCHANGED <<dvars, scn, kind, other, index, tile, buf, req, net, issueLog>>

InitApi ==
  /\ dargs \in ApiArgs /\ dres = NoResult
  /\ scn = NoScenario
  /\ kind = [o \in {ApiCall} |-> "call"]
  /\ pc = [o \in {ApiCall} |-> "none"]
  /\ other = [o \in {ApiCall} |-> FALSE]
  /\ index = [o \in {ApiCall} |-> 0]
  /\ tilePipe = [m \in 0..2 |-> EmptyPipeline]
  /\ commPipe = [r \in {0} |-> EmptyPipeline]
  /\ tile = [m \in 0..2 |-> 0]
  /\ buf = [o \in {ApiCall} |-> 0]
  /\ req = [o \in {ApiCall} |-> "null"]
  /\ net = [r \in {0} |-> <<>>]
  /\ issueLog = [r \in {0} |-> <<>>]

NextApi ==
  \/ permute
  \/ permute_pipeline
  \/ reductionToBand
  \/ reductionToBand_grid

SpecApi == InitApi /\ [][NextApi]_vars

\* C22: a call of permute (local or with a pipeline) or of reductionToBand
\* that violates a precondition (index range, sizes and block sizes, grid,
\* band size) fails at the call, before the implementation is invoked: it
\* has requested no tile and no communicator access; a call that is let
\* through violates none.
C22_ViolationFailsBeforeAnyRequest ==
  LET a == dargs
      IsPermute == a.fn \in {"permute", "permute_pipeline"}
      BadIndexRange ==
        IsPermute /\ ~(0 <= a.i_begin /\ a.i_begin <= a.i_end
                       /\ a.i_end <= nrTilesRows(a.perms))
      BadShapes ==
        IF IsPermute
        THEN \/ a.mat_in.size # a.mat_out.size
             \/ a.mat_in.block # a.mat_out.block
             \/ a.mat_in.size[1] # a.mat_in.size[2]
             \/ a.mat_in.block[1] # a.mat_in.block[2]
             \/ a.perms.size # <<a.mat_in.size[1], 1>>
             \/ a.perms.block[1] # a.mat_in.block[1]
        ELSE \/ a.mat_a.size[1] # a.mat_a.size[2]
             \/ a.mat_a.block[1] # a.mat_a.block[2]
      BadGrid ==
        IF IsPermute
        THEN a.perms.grid # 1 \/ a.mat_in.grid # a.grid \/ a.mat_out.grid # a.grid
        ELSE a.mat_a.grid # a.grid
      BadBandSize ==
        ~IsPermute /\ (a.band_size < 2 \/ a.mat_a.block[1] % a.band_size # 0)
      NothingRequested ==
        /\ \A m \in DOMAIN tilePipe : tilePipe[m] = EmptyPipeline
        /\ \A r \in DOMAIN commPipe : commPipe[r] = EmptyPipeline
  IN  pc[ApiCall] # "none" =>
        IF BadIndexRange \/ BadShapes \/ BadGrid \/ BadBandSize
        THEN pc[ApiCall] = "failed" /\ NothingRequested
        ELSE pc[ApiCall] = "running"

\* permute with a pipeline has failed on i_end > perms.nrTiles().rows(), all
\* else being as required, with a non-empty range.
C22_Witness ==
  /\ pc[ApiCall] = "failed" /\ dargs.fn = "permute_pipeline"
  /\ dargs.i_begin = 0 /\ dargs.i_end > nrTilesRows(dargs.perms)
  /\ dargs.mat_in = dargs.mat_out /\ dargs.mat_in.grid = dargs.grid
  /\ dargs.mat_in.size[1] = dargs.mat_in.size[2]
  /\ dargs.mat_in.block[1] = dargs.mat_in.block[2]
  /\ dargs.perms.size = <<dargs.mat_in.size[1], 1>>
  /\ dargs.perms.block[1] = dargs.mat_in.block[1] /\ dargs.perms.grid = 1

(***************************************************************************)
(* The end of life of a Resource Pipeline: its owner destroys it at any    *)
(* time.  Destroying it while requests are outstanding is a programming    *)
(* error that stops the program; nothing runs after it.                    *)
(***************************************************************************)
PipelineOwner == <<1, 1>>

\* Requests started on the pipeline and not yet released.
Outstanding(p) == p.queue # <<>> \/ p.held # {}

\* A slip: the destructor drops what is queued and held, and returns.
Destroy_Drops ==
  /\ pc[PipelineOwner] = "none"
  /\ tilePipe' = [tilePipe EXCEPT ![0].queue = <<>>, ![0].held = {}]
  /\ pc' = [pc EXCEPT ![PipelineOwner] = "done"]
  /\ UNCHANGED <<dvars, scn, kind, other, index, commPipe, tile, buf, req, net, issueLog>>

\* The pipeline is destroyed.
Destroy ==
  /\ pc[PipelineOwner] = "none"
  /\ pc' = [pc EXCEPT ![PipelineOwner] = IF Outstanding(tilePipe[0]) THEN "failed" ELSE "done"]
  /\ UNCHANGED <<dvars, scn, kind, other, index, tilePipe, commPipe, tile, buf, req, net, issueLog>>

InitLifecycle ==
  /\ dargs = DefaultDistArgs /\ dres = NoResult
  /\ scn = NoScenario
  /\ kind = [o \in PipelineOps \cup {PipelineOwner} |-> IF o = PipelineOwner THEN "owner" ELSE "none"]
  /\ pc = [o \in PipelineOps \cup {PipelineOwner} |-> "none"]
  /\ other = [o \in PipelineOps \cup {PipelineOwner} |-> FALSE]
  /\ index = [o \in PipelineOps \cup {PipelineOwner} |-> 0]
  /\ tilePipe = [r \in {0} |-> EmptyPipeline]
  /\ commPipe = [r \in {0} |-> EmptyPipeline]
  /\ tile = [r \in {0} |-> 0]
  /\ buf = [o \in PipelineOps \cup {PipelineOwner} |-> 0]
  /\ req = [o \in PipelineOps \cup {PipelineOwner} |-> "null"]
  /\ net = [r \in {0} |-> <<>>]
  /\ issueLog = [r \in {0} |-> <<>>]

\* The users of the pipeline run until it is destroyed.
NextLifecycle ==
  \/ pc[PipelineOwner] = "none" /\ NextPipeline
  \/ Destroy

SpecLifecycle == InitLifecycle /\ [][NextLifecycle]_vars

Aborted == \E o \in Ops : pc[o] = "aborted"

\* The non-blocking call itself fails.  With MPI_ERRORS_RETURN the callable
\* gets the error code; the operator goes on to lines 95-96 (101-102) with
\* a request that will never complete.
CallFails(o) ==
  /\ pc[o] = "inCall"
  /\ IF scn.errhandler = "MPI_ERRORS_ARE_FATAL"
     THEN pc' = [pc EXCEPT ![o] = "aborted"] /\ req' = req
     ELSE pc' = [pc EXCEPT ![o] = "called"] /\ req' = [req EXCEPT ![o] = "failed"]
  /\ UNCHANGED <<dvars, scn, kind, other, index, tilePipe, commPipe, tile, buf, net, issueLog>>

\* The communication of a pending request fails.
NetFail(o) ==
  /\ req[o] = "pending"
  /\ req' = [req EXCEPT ![o] = "failed"]
  /\ UNCHANGED <<dvars, scn, kind, pc, other, index, tilePipe, commPipe, tile, buf, net, issueLog>>

\* A slip: MPI_Test returns an error and the wait ends, whatever the handler.
TestFails_Swallowed(o) ==
  /\ pc[o] = "polling" /\ req[o] = "failed"
  /\ pc' = [pc EXCEPT ![o] = "completed"]
  /\ UNCHANGED <<dvars, scn, kind, other, index, tilePipe, commPipe, tile, buf, req, net, issueLog>>

\* is_request_completed on a failed request: MPI_Test aborts, or returns an
\* error code that is dropped and leaves flag as it was, that is with any
\* value an int never written can have; "flag == 0" then keeps the wait
\* going or ends it.
TestFails(o) ==
  /\ pc[o] = "polling" /\ req[o] = "failed"
  /\ IF scn.errhandler = "MPI_ERRORS_ARE_FATAL"
     THEN pc' = [pc EXCEPT ![o] = "aborted"]
     ELSE \E flag \in {0, 1} :
            pc' = [pc EXCEPT ![o] = IF flag = 0 THEN "polling" ELSE "completed"]
  /\ UNCHANGED <<dvars, scn, kind, other, index, tilePipe, commPipe, tile, buf, req, net, issueLog>>

InitFailure ==
  /\ dargs = DefaultDistArgs /\ dres = NoResult
  /\ \E h \in {"MPI_ERRORS_ARE_FATAL", "MPI_ERRORS_RETURN"} :
       scn = [nranks |-> 1, coll |-> "none", root |-> 0, staging |-> FALSE, tile0 |-> <<>>,
              errhandler |-> h]
  /\ \E n \in 1..MaxCalls :
       /\ kind = [o \in CallOps(n) |-> "mpi"]
       /\ pc = [o \in CallOps(n) |-> "constructed"]
       /\ other = [o \in CallOps(n) |-> FALSE]
       /\ index = [o \in CallOps(n) |-> 0]
       /\ buf = [o \in CallOps(n) |-> 0]
       /\ req = [o \in CallOps(n) |-> "null"]
  /\ tilePipe = [r \in {0} |-> EmptyPipeline]
  /\ commPipe = [r \in {0} |-> EmptyPipeline]
  /\ tile = [r \in {0} |-> 0]
  /\ net = [r \in {0} |-> <<>>]
  /\ issueLog = [r \in {0} |-> <<>>]

\* The bridged calls run, and MPI fails or not, until the process aborts.
NextFailure ==
  /\ ~Aborted
  /\ \/ NextBridge
     \/ \E o \in Ops : CallFails(o)
     \/ \E o \in Ops : NetFail(o)
     \/ \E o \in Ops : TestFails(o)

SpecFailure == InitFailure /\ [][NextFailure]_vars

HeavyArgs ==
  { [fn |-> f, element |-> e, block_size |-> b, tile |-> 0, tile_element |-> 0,
     index |-> 0, tiles_per_block |-> 1, grid_size |-> 1, rank |-> 0, src_rank |-> 0] :
      f \in {"tileFromElement", "tileElementFromElement"},
      e \in -1..MaxElement, b \in -1..MaxBlockSize }
  \cup
  { [fn |-> "elementFromTileAndTileElement",
     element |-> 0, block_size |-> b, tile |-> t, tile_element |-> o,
     index |-> 0, tiles_per_block |-> 1, grid_size |-> 1, rank |-> 0, src_rank |-> 0] :
      b \in -1..MaxBlockSize, t \in -1..1, o \in -1..MaxBlockSize }
  \cup
  { [fn |-> "rankGlobalTile", element |-> 0, block_size |-> 1, tile |-> 0, tile_element |-> 0,
     index |-> g, tiles_per_block |-> t, grid_size |-> n, rank |-> 0, src_rank |-> s] :
      g \in -1..2, t \in -1..MaxTilesPerBlock, n \in -1..MaxGridSize, s \in -1..MaxGridSize }
  \cup
  { [fn |-> f, element |-> 0, block_size |-> 1, tile |-> 0, tile_element |-> 0,
     index |-> g, tiles_per_block |-> t, grid_size |-> n, rank |-> r, src_rank |-> s] :
      f \in {"localTileFromGlobalTile", "nextLocalTileFromGlobalTile", "globalTileFromLocalTile"},
      g \in -1..(2 * MaxTilesPerBlock + 1), t \in -1..MaxTilesPerBlock,
      n \in -1..MaxGridSize, r \in -1..MaxGridSize, s \in -1..MaxGridSize }

\* The call of f returns v when its assertions hold, else it fails.
HeavyCall(f, asserts, v) ==
  /\ dargs.fn = f /\ ~Called("result") /\ ~Called("precondition_error")
  /\ IF asserts THEN Store("result", v) ELSE Store("precondition_error", 1)
  /\ UNCHANGED <<dargs, pvars>>

Heavy_tileFromElement ==
  LET asserts == /\ 0 <= dargs.element
                 /\ 0 < dargs.block_size
  IN  HeavyCall("tileFromElement", asserts,
                IF asserts THEN tileFromElement(dargs.element, dargs.block_size) ELSE 0)

Heavy_tileElementFromElement ==
  LET asserts == /\ 0 <= dargs.element
                 /\ 0 < dargs.block_size
  IN  HeavyCall("tileElementFromElement", asserts,
                IF asserts THEN tileElementFromElement(dargs.element, dargs.block_size) ELSE 0)

Heavy_elementFromTileAndTileElement ==
  LET asserts == /\ 0 <= dargs.tile
                 /\ 0 <= dargs.tile_element /\ dargs.tile_element < dargs.block_size
                 /\ 0 < dargs.block_size
  IN  HeavyCall("elementFromTileAndTileElement", asserts,
                IF asserts
                THEN elementFromTileAndTileElement(dargs.tile, dargs.tile_element,
                                                   dargs.block_size)
                ELSE 0)

\* A slip: src_rank is not checked.
Heavy_rankGlobalTile_NoSrcRank ==
  LET asserts == /\ 0 <= dargs.index
                 /\ 0 < dargs.tiles_per_block
                 /\ 0 < dargs.grid_size
  IN  HeavyCall("rankGlobalTile", asserts,
                IF asserts
                THEN rankGlobalTile(dargs.index, dargs.tiles_per_block, dargs.grid_size,
                                    dargs.src_rank)
                ELSE 0)

Heavy_rankGlobalTile ==
  LET asserts == /\ 0 <= dargs.index
                 /\ 0 < dargs.tiles_per_block
                 /\ 0 < dargs.grid_size
                 /\ 0 <= dargs.src_rank /\ dargs.src_rank < dargs.grid_size
  IN  HeavyCall("rankGlobalTile", asserts,
                IF asserts
                THEN rankGlobalTile(dargs.index, dargs.tiles_per_block, dargs.grid_size,
                                    dargs.src_rank)
                ELSE 0)

Heavy_localTileFromGlobalTile ==
  LET asserts == /\ 0 <= dargs.index
                 /\ 0 < dargs.tiles_per_block
                 /\ 0 < dargs.grid_size
                 /\ 0 <= dargs.rank /\ dargs.rank < dargs.grid_size
                 /\ 0 <= dargs.src_rank /\ dargs.src_rank < dargs.grid_size
  IN  HeavyCall("localTileFromGlobalTile", asserts,
                IF asserts
                THEN localTileFromGlobalTile(dargs.index, dargs.tiles_per_block,
                                             dargs.grid_size, dargs.rank, dargs.src_rank)
                ELSE 0)

Heavy_nextLocalTileFromGlobalTile ==
  LET asserts == /\ 0 <= dargs.index
                 /\ 0 < dargs.tiles_per_block
                 /\ 0 < dargs.grid_size
                 /\ 0 <= dargs.rank /\ dargs.rank < dargs.grid_size
                 /\ 0 <= dargs.src_rank /\ dargs.src_rank < dargs.grid_size
  IN  HeavyCall("nextLocalTileFromGlobalTile", asserts,
                IF asserts
                THEN nextLocalTileFromGlobalTile(dargs.index, dargs.tiles_per_block,
                                                 dargs.grid_size, dargs.rank, dargs.src_rank)
                ELSE 0)

Heavy_globalTileFromLocalTile ==
  LET asserts == /\ 0 <= dargs.index
                 /\ 0 < dargs.tiles_per_block
                 /\ 0 < dargs.grid_size
                 /\ 0 <= dargs.rank /\ dargs.rank < dargs.grid_size
                 /\ 0 <= dargs.src_rank /\ dargs.src_rank < dargs.grid_size
  IN  HeavyCall("globalTileFromLocalTile", asserts,
                IF asserts
                THEN globalTileFromLocalTile(dargs.index, dargs.tiles_per_block,
                                             dargs.grid_size, dargs.rank, dargs.src_rank)
                ELSE 0)

InitHeavy ==
  /\ dargs \in HeavyArgs
  /\ dres = NoResult
  /\ InitIdle

NextHeavy ==
  \/ Heavy_tileFromElement
  \/ Heavy_tileElementFromElement
  \/ Heavy_elementFromTileAndTileElement
  \/ Heavy_rankGlobalTile
  \/ Heavy_localTileFromGlobalTile
  \/ Heavy_nextLocalTileFromGlobalTile
  \/ Heavy_globalTileFromLocalTile

SpecHeavy == InitHeavy /\ [][NextHeavy]_vars

\* C25: with heavy assertions enabled, a call of an index function with a
\* negative index, a non-positive block or grid size, a rank or src_rank
\* outside [0, grid_size), or (elementFromTileAndTileElement) tile_element
\* >= block_size fails with a precondition error and returns no value; any
\* other call returns.
C25_ViolationFails ==
  LET NonNegativeIndices ==
        dargs.element >= 0 /\ dargs.tile >= 0 /\ dargs.tile_element >= 0 /\ dargs.index >= 0
      PositiveSizes ==
        dargs.block_size > 0 /\ dargs.tiles_per_block > 0 /\ dargs.grid_size > 0
      RanksInGrid ==
        /\ dargs.rank \in 0..(dargs.grid_size - 1)
        /\ dargs.src_rank \in 0..(dargs.grid_size - 1)
      TileElementInBlock ==
        dargs.fn = "elementFromTileAndTileElement" => dargs.tile_element < dargs.block_size
  IN  (Called("result") \/ Called("precondition_error")) =>
        IF NonNegativeIndices /\ PositiveSizes /\ RanksInGrid /\ TileElementInBlock
        THEN Called("result") /\ ~Called("precondition_error")
        ELSE Called("precondition_error") /\ ~Called("result")

\* rankGlobalTile was called with src_rank = grid_size, all else in range,
\* and failed.
C25_Witness ==
  /\ Called("precondition_error") /\ dargs.fn = "rankGlobalTile"
  /\ dargs.src_rank = dargs.grid_size /\ dargs.grid_size > 0
  /\ dargs.index >= 0 /\ dargs.tiles_per_block > 0

(***************************************************************************)
(* Claims on the laziness of the senders and on stalls of a pipeline.      *)
(***************************************************************************)
\* C26: readAccess() and exclusiveAccess() are lazy.  Building a sender
\* leaves the pipeline as it was; a sender that was not started is neither
\* queued nor a holder, and it delays nobody: a request waits only while a
\* started request that was granted before it holds the resource.
C26_ConstructionIsLazy ==
  /\ [][(\E o \in Ops : pc[o] = "none" /\ pc'[o] = "constructed")
          => (tilePipe' = tilePipe /\ commPipe' = commPipe)]_vars
  /\ [](\A o \in Ops :
          pc[o] = "constructed" =>
            /\ ~Queued(tilePipe[0], o) /\ ~Holds(tilePipe[0], o)
            /\ \A i \in DOMAIN tilePipe[0].slog : tilePipe[0].slog[i].id # o)
  /\ [](tilePipe[0].queue # <<>> =>
          /\ ~CanGrant(tilePipe[0])
          /\ \E h \in tilePipe[0].held : pc[h.id] = "started")

\* The first sender built is exclusive and not started; the second, started
\* after it was built, holds the resource.
C26_Witness ==
  /\ pc[<<0, 1>>] = "constructed" /\ kind[<<0, 1>>] = "rw"
  /\ pc[<<0, 2>>] = "started" /\ Holds(tilePipe[0], <<0, 2>>)

\* C27: a queued request advances only when a guard is released, and while
\* a guard that was held when the request was queued stays held the request
\* stays queued: a guard that is never released stalls the requests queued
\* behind it forever, and no step of the pipeline breaks the stall.
C27_StalledUntilRelease ==
  [][ /\ (\E o \in Ops : Queued(tilePipe[0], o) /\ ~Queued(tilePipe'[0], o))
        => (\E h \in Ops : Holds(tilePipe[0], h) /\ ~Holds(tilePipe'[0], h))
      /\ \A o, h \in Ops :
           (Queued(tilePipe[0], o) /\ Holds(tilePipe[0], h) /\ Holds(tilePipe'[0], h))
             => Queued(tilePipe'[0], o) ]_vars

\* A shared guard is held while an exclusive request and a request started
\* after it wait.
C27_Witness ==
  /\ \E h \in tilePipe[0].held : ~h.excl
  /\ Len(tilePipe[0].queue) >= 2 /\ Head(tilePipe[0].queue).excl

C29_TileDeliveredStillHeld ==
  /\ [][\A o \in KernelOps :
          (kind[o] \in {"recv", "allreduce"} /\ pc[o] = "completed" /\ pc'[o] # "completed")
            => /\ pc'[o] = "delivered"
               /\ tilePipe'[RankOf(o)].held = {Request(o, TRUE)}]_vars
  /\ [](\A o \in KernelOps :
          (kind[o] \in {"recv", "allreduce"} /\ pc[o] = "delivered")
            => /\ tilePipe[RankOf(o)].held = {Request(o, TRUE)}
               /\ tile[RankOf(o)] = IF kind[o] = "recv" THEN scn.tile0[scn.root]
                                                         ELSE SumOfRanks)
  /\ [][\A o \in KernelOps :
          (/\ kind[o] \in {"recv", "allreduce"} /\ pc[o] = "delivered"
           /\ tilePipe'[RankOf(o)].glog # tilePipe[RankOf(o)].glog)
            => pc'[o] = "done"]_vars

\* A receive has delivered its tile while another accessor of the tile,
\* started meanwhile, waits.
C29_Witness ==
  \E o \in KernelOps :
    /\ kind[o] = "recv" /\ pc[o] = "delivered"
    /\ tilePipe[RankOf(o)].queue # <<>>

\* C30: of the arguments of a bridged call only the guard of the
\* communicator is consumed at submission.  While the request of a kernel is
\* in flight (pending) the kernel holds its tile and no writer other than
\* the kernel itself holds it; the tile is given up only once the request is
\* complete.
C30_TileHeldWhileInFlight ==
  \A o \in KernelOps :
    /\ req[o] = "pending" =>
         /\ Holds(tilePipe[RankOf(o)], o)
         /\ \A h \in tilePipe[RankOf(o)].held : h.excl => h.id = o
    /\ (req[o] = "pending" /\ pc[o] = "polling") => ~Holds(commPipe[RankOf(o)], o)
    /\ pc[o] = "done" => req[o] = "complete"

\* The request of a send is in flight, the communicator is already free, and
\* a writer of the tile waits.
C30_Witness ==
  \E o \in KernelOps :
    /\ kind[o] = "send" /\ req[o] = "pending" /\ pc[o] = "polling"
    /\ commPipe[RankOf(o)].held = {}
    /\ \E i \in DOMAIN tilePipe[RankOf(o)].queue : tilePipe[RankOf(o)].queue[i].excl

(***************************************************************************)
(* Claims on accesses to different tiles of a Matrix.                      *)
(***************************************************************************)
\* C33: accesses on different tiles are independent.  Whether a request on
\* tile A is granted when it is started is decided by the pipeline of A
\* alone (nothing queued on A, and no holder on A that excludes it), the
\* start leaves the pipelines of the other tiles as they were, and a request
\* waits only behind a holder of its own tile: an exclusive guard held on a
\* tile B # A, released or not, delays no request on A.
C33_TilesIndependent ==
  /\ [][\A o \in MatrixOps :
          (pc[o] = "constructed" /\ pc'[o] = "started") =>
            /\ Holds(tilePipe'[localTileIndex(index[o])], o)
                 <=> (/\ tilePipe[localTileIndex(index[o])].queue = <<>>
                      /\ IF TileExclusive(kind[o])
                         THEN tilePipe[localTileIndex(index[o])].held = {}
                         ELSE \A h \in tilePipe[localTileIndex(index[o])].held : ~h.excl)
            /\ \A l \in DOMAIN tilePipe :
                 l # localTileIndex(index[o]) => tilePipe'[l] = tilePipe[l]]_vars
  /\ [](\A l \in DOMAIN tilePipe : tilePipe[l].queue # <<>> => tilePipe[l].held # {})

\* A writer holds tile B and has not released it; a writer of another tile
\* A, started after it, holds A.
C33_Witness ==
  \E q, o \in MatrixOps :
    /\ q[2] < o[2] /\ kind[q] = "rw" /\ kind[o] = "rw"
    /\ pc[q] \in {"started", "writing"} /\ pc[o] \in {"started", "writing"}
    /\ localTileIndex(index[q]) # localTileIndex(index[o])
    /\ Holds(tilePipe[localTileIndex(index[q])], q)
    /\ Holds(tilePipe[localTileIndex(index[o])], o)

(***************************************************************************)
(* Claims on the order in which a kernel takes its tile and the            *)
(* communicator.                                                           *)
(***************************************************************************)
\* C32: in scheduleSendBcast and scheduleRecvBcast the communicator is asked
\* for only once the tile access has been granted, and its guard is released
\* right after the call is issued: a kernel that waits on its tile pipeline
\* has no request on the communicator pipeline, a kernel that holds the
\* communicator guard holds its tile and is between the grant of the
\* communicator and the end of the submission, and the guard is gone while
\* the request is polled.
C32_CommunicatorAfterTile ==
  \A o \in KernelOps :
    kind[o] \in {"send", "recv"} =>
      /\ (pc[o] \in {"constructed", "waitTile"}) =>
           \A i \in DOMAIN commPipe[RankOf(o)].slog : commPipe[RankOf(o)].slog[i].id # o
      /\ (Queued(commPipe[RankOf(o)], o) \/ Holds(commPipe[RankOf(o)], o)) =>
           /\ Holds(tilePipe[RankOf(o)], o)
           /\ pc[o] \in {"waitArgs", "inCall", "called"}
      /\ (pc[o] \in {"polling", "completed", "delivered", "done"}) =>
           /\ ~Holds(commPipe[RankOf(o)], o)
           /\ InSeq(issueLog[RankOf(o)], o)

\* A receive waits for its tile behind another access while it has asked
\* nothing of the communicator; the root's send is already polling.
C32_Witness ==
  \E o, q \in KernelOps :
    /\ kind[o] = "recv" /\ pc[o] = "waitTile" /\ Queued(tilePipe[RankOf(o)], o)
    /\ commPipe[RankOf(o)] = EmptyPipeline
    /\ kind[q] = "send" /\ pc[q] = "polling"

\* C34: in a group of a single rank the kernels run the whole machinery.  A
\* kernel advances one step at a time through the acquisition of the tile,
\* the grant of the communicator, the call, the release of the communicator
\* guard and the wait; one that is over was granted its tile and the
\* communicator, issued its call and saw its request complete; and every
\* kernel of the group eventually completes.
C34_SingleRankRunsKernel ==
  /\ [][\A o \in KernelOps :
          (scn.nranks = 1 /\ pc'[o] # pc[o]) =>
            <<pc[o], pc'[o]>> \in {<<"constructed", "waitTile">>, <<"waitTile", "waitArgs">>,
                                   <<"waitArgs", "inCall">>, <<"inCall", "called">>,
                                   <<"called", "polling">>, <<"polling", "completed">>,
                                   <<"completed", "delivered">>, <<"completed", "done">>,
                                   <<"delivered", "done">>}]_vars
  /\ [](\A o \in KernelOps :
          (scn.nranks = 1 /\ pc[o] \in {"completed", "delivered", "done"}) =>
            /\ InSeq(tilePipe[RankOf(o)].glog, o)
            /\ InSeq(commPipe[RankOf(o)].glog, o) /\ ~Holds(commPipe[RankOf(o)], o)
            /\ InSeq(issueLog[RankOf(o)], o)
            /\ req[o] = "complete")
  /\ (scn.nranks = 1) ~> (\A o \in KernelOps : pc[o] \in {"delivered", "done"})

\* The send of a broadcast in a group of one rank is over, through a staging
\* buffer.
C34_Witness ==
  /\ scn.nranks = 1 /\ scn.coll = "bcast" /\ scn.staging
  /\ \E o \in KernelOps : kind[o] = "send" /\ pc[o] = "done" /\ req[o] = "complete"

(***************************************************************************)
(* Claims on the conversion from local to global tile indices.             *)
(***************************************************************************)
\* C35: for a rank of [0, grid_size) and a local tile index l >= 0, the
\* global tile G = globalTileFromLocalTile(l, ..., rank, src_rank) is owned
\* by the rank (rankGlobalTile(G, ...) = rank) and
\* localTileFromGlobalTile(G, ..., rank, src_rank) = l; and for a global
\* tile G the rank owns, globalTileFromLocalTile of its local index is G.
C35_LocalGlobalInverse ==
  /\ (Called("result") /\ dargs.fn = "globalTileFromLocalTile") =>
       /\ dres["result"] >= 0
       /\ rankGlobalTile(dres["result"], dargs.tiles_per_block, dargs.grid_size,
                         dargs.src_rank) = dargs.rank
       /\ localTileFromGlobalTile(dres["result"], dargs.tiles_per_block, dargs.grid_size,
                                  dargs.rank, dargs.src_rank) = dargs.index
  /\ (Called("result") /\ dargs.fn = "localTileFromGlobalTile" /\ dres["result"] >= 0) =>
       globalTileFromLocalTile(dres["result"], dargs.tiles_per_block, dargs.grid_size,
                               dargs.rank, dargs.src_rank) = dargs.index

\* The local tile is in the rank's second block, not its first tile, on a
\* grid whose first block is on a rank after this one.
C35_Witness ==
  /\ Called("result") /\ dargs.fn = "globalTileFromLocalTile"
  /\ dargs.index >= dargs.tiles_per_block /\ dargs.index % dargs.tiles_per_block > 0
  /\ dargs.grid_size > 1 /\ dargs.rank < dargs.src_rank

(***************************************************************************)
(* The bridge on an MPI pool of one worker.  A task has the worker from    *)
(* the invocation of its callable to the begin of yield_while; while it    *)
(* waits it has the worker only for the time of a test and yields it       *)
(* between tests.  The calls are given the communicator alone, and the     *)
(* request of a call completes only once the call constructed after it     *)
(* has been issued (the request of the last one completes freely).         *)
(***************************************************************************)
\* A slip: the wait keeps the worker until the request has completed.
RunOnWorker_BlockingWait(o) ==
  /\ \A q \in Ops : pc[q] \notin {"inCall", "called", "polling"}
  /\ Invoke(o)

\* ex::transfer(sender, getMPIScheduler()) | ex::then(MPICallHelper{f}): the
\* call operator runs on the worker once the worker is free.
RunOnWorker(o) ==
  /\ \A q \in Ops : pc[q] \notin {"inCall", "called"}
  /\ Invoke(o)

\* MPI completes the request of o once the matching call, the next one, has
\* been issued.
NetCompleteAfterNext(o) ==
  /\ <<0, o[2] + 1>> \in Ops => InSeq(issueLog[0], <<0, o[2] + 1>>)
  /\ NetComplete(o)

InitYield ==
  /\ InitBridge
  /\ \A o \in DOMAIN other : ~other[o]

NextYield ==
  \/ \E o \in Ops : StartCall(o)
  \/ \E o \in Ops : RunOnWorker(o)
  \/ \E o \in Ops : Return(o)
  \/ \E o \in Ops : ConsumeGuard(o)
  \/ \E o \in Ops : NetCompleteAfterNext(o)
  \/ \E o \in Ops : Poll(o)
  \/ \E o \in Ops : Finish(o)

\* The senders are started, the pool runs a task that is ready and MPI
\* progresses a request that can complete.
SpecYield == InitYield /\ [][NextYield]_vars /\ WF_vars(NextYield)

\* C31: the wait for a bridged request does not keep the worker.  With one
\* communication worker, a call whose arguments are ready can always be
\* invoked, whatever requests are still incomplete, and calls of which each
\* completes only after a later one has been issued all terminate.
C31_WaitYieldsWorker ==
  /\ [](\A o \in Ops : (pc[o] = "waitArgs" /\ ArgsReady(o)) => ENABLED RunOnWorker(o))
  /\ <>(\A o \in Ops : pc[o] = "done")

\* The first call polls a request that is still pending while the second
\* call, on which its completion depends, is being issued.
C31_Witness ==
  /\ <<0, 2>> \in Ops
  /\ pc[<<0, 1>>] = "polling" /\ req[<<0, 1>>] = "pending"
  /\ pc[<<0, 2>>] = "inCall"

(***************************************************************************)
(* The fire-and-forget entry points of the bridge.  transformMPIDetach     *)
(* starts transformMPI(f, sender) detached; transformMPILiftDetach starts  *)
(* transformLift(f, ts...), the generic transform of sender/transform.h    *)
(* whose first parameter is a Policy (sender/policy.h), not                *)
(* transformMPI(f, whenAllLift(ts...)).  A call of it with an MPI callable *)
(* as f is ill-formed; a call that builds runs the callable as a plain     *)
(* task: no MPICallHelper, hence no request, no release of the             *)
(* communicator guard at submission and no wait.  An operation of kind     *)
(* "mpi" is made with transformMPILift or transformMPIDetach, one of kind  *)
(* "liftDetach" with transformMPILiftDetach.                               *)
(***************************************************************************)
\* transformMPILiftDetach(f, ts...): start_detached(transformLift(f, ts...)).
transformMPILiftDetach(o) ==
  /\ pc[o] = "constructed" /\ kind[o] = "liftDetach"
  /\ \E build \in {"ill-formed", "transform"} :
       IF build = "ill-formed"
       THEN pc' = [pc EXCEPT ![o] = "illformed"] /\ commPipe' = commPipe
       ELSE /\ pc' = [pc EXCEPT ![o] = "waitLift"]
            /\ commPipe' = [commPipe EXCEPT ![RankOf(o)] = PipelineStart(@, Request(o, TRUE))]
  /\ UNCHANGED <<dvars, scn, kind, other, index, tilePipe, tile, buf, req, net, issueLog>>

\* The task of transformLift: the callable is called with the arguments, and
\* the arguments (the communicator guard among them) are destroyed when it
\* has returned.
transformLift_call(o) ==
  /\ pc[o] = "waitLift" /\ Holds(commPipe[RankOf(o)], o)
  /\ commPipe' = [commPipe EXCEPT ![RankOf(o)] = PipelineRelease(@, o)]
  /\ pc' = [pc EXCEPT ![o] = "done"]
  /\ UNCHANGED <<dvars, scn, kind, other, index, tilePipe, tile, buf, req, net, issueLog>>

InitDetach ==
  /\ dargs = DefaultDistArgs /\ dres = NoResult
  /\ scn = NoScenario
  /\ \E n \in 1..MaxCalls :
       /\ kind \in [CallOps(n) -> {"mpi", "liftDetach"}]
       /\ pc = [o \in CallOps(n) |-> "constructed"]
       /\ other = [o \in CallOps(n) |-> FALSE]
       /\ index = [o \in CallOps(n) |-> 0]
       /\ buf = [o \in CallOps(n) |-> 0]
       /\ req = [o \in CallOps(n) |-> "null"]
  /\ tilePipe = [r \in {0} |-> EmptyPipeline]
  /\ commPipe = [r \in {0} |-> EmptyPipeline]
  /\ tile = [r \in {0} |-> 0]
  /\ net = [r \in {0} |-> <<>>]
  /\ issueLog = [r \in {0} |-> <<>>]

NextDetach ==
  \/ NextBridge
  \/ \E o \in Ops : transformMPILiftDetach(o)
  \/ \E o \in Ops : transformLift_call(o)

SpecDetach == InitDetach /\ [][NextDetach]_vars

\* C36 as stated: an operation started with transformMPILiftDetach is the
\* bridged operation of transformMPILift: once started it is at a position
\* of the bridge, it holds the communicator guard only up to the submission,
\* and it is over only when its call was issued with a request and the
\* request has completed.
C36_LiftDetachIsBridged ==
  \A o \in Ops :
    kind[o] = "liftDetach" =>
      /\ pc[o] \in {"constructed", "waitArgs", "inCall", "called", "polling", "completed", "done"}
      /\ Holds(commPipe[RankOf(o)], o) => pc[o] \in {"waitArgs", "inCall", "called"}
      /\ pc[o] = "done" => (InSeq(issueLog[RankOf(o)], o) /\ req[o] = "complete")

(***************************************************************************)
(* eigensolver/reduction_to_band.h: reductionToBand checks its arguments   *)
(* and passes the taus of the band chunks, one future per chunk, to        *)
(* groupTausFromBandsToTiles, which groups them by tile.  dargs holds      *)
(* band_size, mb = mat_a.blockSize().rows() (positive for every Matrix)    *)
(* and taus_band, the number of taus of each chunk; tau j of chunk k is    *)
(* <<k, j>>.  dres holds the locals group_size, start and taus of the      *)
(* function; a future of taus is [first, last, ready, value] with          *)
(* (first, last] the chunks it depends on.  Operation <<0, 0>> is the      *)
(* caller, <<1, k>> the future of chunk k.                                 *)
(***************************************************************************)
\* A slip: the divisibility of the block size by band_size is not checked.
reductionToBand_taus_NoDivisibility ==
  /\ pc[<<0, 0>>] = "none"
  /\ IF dargs.band_size >= 2
     THEN /\ pc' = [pc EXCEPT ![<<0, 0>>] = "loop"]
          /\ dres' = [group_size |-> dargs.mb \div dargs.band_size, start |-> 0, taus |-> <<>>]
     ELSE pc' = [pc EXCEPT ![<<0, 0>>] = "failed"] /\ dres' = dres
  /\ UNCHANGED <<dargs, scn, kind, other, index, tilePipe, commPipe, tile, buf, req, net, issueLog>>

\* reductionToBand: DLAF_ASSERT(band_size >= 2), DLAF_ASSERT(blockSize().rows()
\* % band_size == 0), then groupTausFromBandsToTiles(..., band_size, mb) up
\* to its loop: group_size = mb / band_size, start = 0, taus empty.
reductionToBand_taus ==
  /\ pc[<<0, 0>>] = "none"
  /\ IF dargs.band_size >= 2 /\ dargs.mb % dargs.band_size = 0
     THEN /\ pc' = [pc EXCEPT ![<<0, 0>>] = "loop"]
          /\ dres' = [group_size |-> dargs.mb \div dargs.band_size, start |-> 0, taus |-> <<>>]
     ELSE pc' = [pc EXCEPT ![<<0, 0>>] = "failed"] /\ dres' = dres
  /\ UNCHANGED <<dargs, scn, kind, other, index, tilePipe, commPipe, tile, buf, req, net, issueLog>>

\* One test of "start < taus_band.size()": an iteration of the loop, which
\* adds the future of the chunks [start, min(size, start + group_size)) and
\* advances start by group_size, or the return of taus.  (A loop that does
\* not advance is followed for MaxChunks + 1 iterations.)
groupTausFromBandsToTiles ==
  /\ pc[<<0, 0>>] = "loop"
  /\ IF dres.start < Len(dargs.taus_band)
     THEN /\ Len(dres.taus) <= MaxChunks
          /\ dres' = [dres EXCEPT
                        !.taus = Append(@, [first |-> dres.start,
                                            last  |-> IF dres.start + dres.group_size
                                                           < Len(dargs.taus_band)
                                                      THEN dres.start + dres.group_size
                                                      ELSE Len(dargs.taus_band),
                                            ready |-> FALSE, value |-> <<>>]),
                        !.start = @ + dres.group_size]
          /\ pc' = pc
     ELSE pc' = [pc EXCEPT ![<<0, 0>>] = "returned"] /\ dres' = dres
  /\ UNCHANGED <<dargs, scn, kind, other, index, tilePipe, commPipe, tile, buf, req, net, issueLog>>

\* The taus of a band chunk are computed: its future becomes ready.
ChunkReady(k) ==
  /\ pc[<<1, k>>] = "pending"
  /\ pc' = [pc EXCEPT ![<<1, k>>] = "ready"]
  /\ UNCHANGED <<dvars, scn, kind, other, index, tilePipe, commPipe, tile, buf, req, net, issueLog>>

\* A slip: the continuation runs when the first chunk of the group is ready.
GroupReady_FirstChunk(i) ==
  /\ "taus" \in DOMAIN dres /\ i \in DOMAIN dres.taus /\ ~dres.taus[i].ready
  /\ pc[<<1, dres.taus[i].first + 1>>] = "ready"
  /\ LET RECURSIVE Chunks(_, _)
         Chunks(k, last) ==
           IF k > last THEN <<>>
           ELSE [j \in 1..dargs.taus_band[k] |-> <<k, j>>] \o Chunks(k + 1, last)
     IN  dres' = [dres EXCEPT !.taus[i].ready = TRUE,
                              !.taus[i].value = Chunks(dres.taus[i].first + 1, dres.taus[i].last)]
  /\ UNCHANGED <<dargs, pvars>>

\* when_all_vector(block_deps) | then(...): once every chunk of the group is
\* ready the continuation moves their taus, chunk after chunk and tau after
\* tau, into taus_tile.
GroupReady(i) ==
  /\ "taus" \in DOMAIN dres /\ i \in DOMAIN dres.taus /\ ~dres.taus[i].ready
  /\ \A k \in (dres.taus[i].first + 1)..dres.taus[i].last : pc[<<1, k>>] = "ready"
  /\ LET RECURSIVE Chunks(_, _)
         Chunks(k, last) ==
           IF k > last THEN <<>>
           ELSE [j \in 1..dargs.taus_band[k] |-> <<k, j>>] \o Chunks(k + 1, last)
     IN  dres' = [dres EXCEPT !.taus[i].ready = TRUE,
                              !.taus[i].value = Chunks(dres.taus[i].first + 1, dres.taus[i].last)]
  /\ UNCHANGED <<dargs, pvars>>

InitTaus ==
  /\ dargs \in [band_size : 0..(MaxBlockSize + 1), mb : 1..(2 * MaxBlockSize),
                taus_band : UNION {[1..n -> 1..2] : n \in 0..MaxChunks}]
  /\ dres = NoResult
  /\ scn = NoScenario
  /\ kind = [o \in {<<0, 0>>} \cup {<<1, k>> : k \in 1..Len(dargs.taus_band)} |->
               IF o[1] = 0 THEN "caller" ELSE "chunk"]
  /\ pc = [o \in {<<0, 0>>} \cup {<<1, k>> : k \in 1..Len(dargs.taus_band)} |->
             IF o[1] = 0 THEN "none" ELSE "pending"]
  /\ other = [o \in {<<0, 0>>} |-> FALSE]
  /\ index = [o \in {<<0, 0>>} |-> 0]
  /\ buf = [o \in {<<0, 0>>} |-> 0]
  /\ req = [o \in {<<0, 0>>} |-> "null"]
  /\ tilePipe = <<>> /\ commPipe = <<>> /\ tile = <<>>
  /\ net = <<>> /\ issueLog = <<>>

NextTaus ==
  \/ reductionToBand_taus
  \/ groupTausFromBandsToTiles
  \/ \E k \in 1..Len(dargs.taus_band) : ChunkReady(k)
  \/ \E i \in 1..MaxChunks : GroupReady(i)

\* The caller runs on, the chunks are computed and ready continuations run.
SpecTaus == InitTaus /\ [][NextTaus]_vars /\ WF_vars(NextTaus)

\* C37: groupTausFromBandsToTiles with n chunks and group_size = mb /
\* band_size >= 1 returns ceil(n / group_size) grouped results; result i,
\* when ready, is the concatenation in input order of the taus of the chunks
\* [(i-1) * group_size, min(n, i * group_size)) (counting i from 1), so over
\* all results every tau appears once and in the order of the input; and a
\* result is ready only when every chunk of its own group is.
C37_TausGroupedInOrder ==
  pc[<<0, 0>>] \in {"loop", "returned"} =>
    LET n == Len(dargs.taus_band)
        group_size == dargs.mb \div dargs.band_size
        ChunksOf(i) == ((i - 1) * group_size + 1)..(IF i * group_size < n THEN i * group_size ELSE n)
        Before(i, k) == UNION {{<<c, j>> : j \in 1..dargs.taus_band[c]} : c \in {c \in ChunksOf(i) : c < k}}
        Placed == {<<i, p>> : i \in DOMAIN dres.taus, p \in 1..(2 * MaxChunks)}
    IN  /\ group_size >= 1
        /\ pc[<<0, 0>>] = "returned" => Len(dres.taus) = (n + group_size - 1) \div group_size
        /\ \A i \in DOMAIN dres.taus :
             dres.taus[i].ready =>
               /\ \A k \in ChunksOf(i) : pc[<<1, k>>] = "ready"
               /\ Len(dres.taus[i].value) = Cardinality(Before(i, n + 1))
               /\ \A k \in ChunksOf(i) : \A j \in 1..dargs.taus_band[k] :
                    dres.taus[i].value[Cardinality(Before(i, k)) + j] = <<k, j>>
        /\ \A x, y \in {z \in Placed : dres.taus[z[1]].ready /\ z[2] <= Len(dres.taus[z[1]].value)} :
             (x[1] < y[1] \/ (x[1] = y[1] /\ x[2] < y[2])) =>
               LET a == dres.taus[x[1]].value[x[2]]
                   b == dres.taus[y[1]].value[y[2]]
               IN  a[1] < b[1] \/ (a[1] = b[1] /\ a[2] < b[2])
        /\ (pc[<<0, 0>>] = "returned" /\ \A i \in DOMAIN dres.taus : dres.taus[i].ready) =>
             \A k \in 1..n : \A j \in 1..dargs.taus_band[k] :
               \E i \in DOMAIN dres.taus : \E p \in DOMAIN dres.taus[i].value :
                 dres.taus[i].value[p] = <<k, j>>

\* Three chunks in groups of two: the first result is ready, with the taus
\* of two chunks of different sizes, while the chunk of the second group is
\* still pending.
C37_Witness ==
  /\ pc[<<0, 0>>] = "returned" /\ Len(dargs.taus_band) = 3
  /\ dargs.mb \div dargs.band_size = 2
  /\ dargs.taus_band[1] = 2 /\ dargs.taus_band[2] = 1
  /\ Len(dres.taus) = 2 /\ dres.taus[1].ready /\ ~dres.taus[2].ready
  /\ pc[<<1, 3>>] = "pending"

\* C38: for every input reductionToBand accepts (band_size >= 2 and mb %
\* band_size = 0, mb positive) group_size = mb / band_size is at least 1:
\* every iteration of the loop of groupTausFromBandsToTiles advances start,
\* the function returns, and it has then made ceil(n / group_size)
\* iterations.
C38_GroupingLoopTerminates ==
  /\ [](pc[<<0, 0>>] \in {"loop", "returned"} => dres.group_size >= 1)
  /\ [][(pc[<<0, 0>>] = "loop" /\ pc'[<<0, 0>>] = "loop" /\ Len(dres'.taus) # Len(dres.taus))
          => (dres'.start > dres.start /\ Len(dres'.taus) = Len(dres.taus) + 1)]_vars
  /\ <>(pc[<<0, 0>>] \in {"returned", "failed"})
  /\ [](pc[<<0, 0>>] = "returned" =>
          /\ dres.start >= Len(dargs.taus_band)
          /\ (Len(dres.taus) - 1) * dres.group_size < Len(dargs.taus_band)
          /\ Len(dres.taus) * dres.group_size >= Len(dargs.taus_band))

\* The function has returned after two iterations over four chunks, with
\* band_size half the block size.
C38_Witness ==
  /\ pc[<<0, 0>>] = "returned" /\ Len(dargs.taus_band) = 4
  /\ dargs.band_size * 2 = dargs.mb /\ dres.group_size = 2
  /\ Len(dres.taus) = 2 /\ dres.start = 4

====
